---- MODULE Spec2Model ----
(***************************************************************************)
(* BtPiFi: the BLE GATT peripheral for Wi-Fi provisioning, in its three    *)
(* rewrites under src/BtPiFi/service:                                      *)
(*   ble_svc.py      dbus_next, asyncio; read/write, scan, Set-SSID and    *)
(*                   Set-PSK characteristics, one descriptor per char      *)
(*   ble_service.py  pydbus, GLib main loop; command, status and SSID-list *)
(*                   characteristics                                       *)
(*   plan_z.py       dbus_next, asyncio; read/write and scan               *)
(*                   characteristics, snapshot object manager              *)
(* One behaviour of the model is one run of one of the three programs      *)
(* (variable variant).  Byte strings are sequences of 0..255, Python str   *)
(* values are sequences of code points.                                    *)
(***************************************************************************)
EXTENDS Integers, Sequences, FiniteSets, TLC

VARIABLES
    variant,        \* which program runs
    pc,             \* main(): "setup" until the application is registered, then "running"
    setupIdx,       \* number of setup statements of main() already executed
    managed,        \* the object manager's dict, as the sequence of its entries (insertion order)
    charPaths,      \* the service's characteristic path list
    descPaths,      \* characteristic path -> its descriptor path list
    value,          \* object path -> _value
    notifying,      \* characteristic path -> _notifying (the objects that have the field)
    target_ssid,    \* ble_svc BleService._target_ssid
    target_psk,     \* ble_svc BleService._target_psk
    current_status,     \* ble_service global
    scanned_ssids_json, \* ble_service global
    idleQ,          \* ble_service: GLib idle sources, in order of attachment
    timers,         \* ble_service: GLib timeout sources
    scanReads,      \* ble_svc / plan_z: ReadValue requests awaiting run_in_executor
    lastOp,         \* the operation that led to this state, with its outcome
    prevOp,         \* the operation before it
    session,        \* what a client of ble_service has written and observed so far
    bus,            \* main(): what is exported on the bus and registered with BlueZ
    calls,          \* the construction calls made directly on the objects, in order
    clients         \* number of GATT clients BlueZ serves (each has one request at a time)

vars == <<variant, pc, setupIdx, managed, charPaths, descPaths, value, notifying,
          target_ssid, target_psk, current_status, scanned_ssids_json,
          idleQ, timers, scanReads, lastOp, prevOp, session, bus, calls, clients>>

-----------------------------------------------------------------------------
(* Bounds of the model *)

\* largest 'offset' option a client passes to ReadValue / WriteValue
MaxOffset == 1
\* most GLib sources (idle + timeout) pending when a further command write is accepted
MaxPending == 2
\* most scan reads a client has in flight at once
MaxScanReads == 1
\* most commands written in an observed session
MaxCommands == 2
\* most construction calls made directly on the objects
MaxCalls == 3

(* Program constants *)

SCAN_DELAY == 2
CONNECT_DELAY == 3
MAX_SSID_BYTES == 32
PSK_MIN_LEN == 8
PSK_MAX_LEN == 63
PSK_HEX_LEN == 64

-----------------------------------------------------------------------------
(* Sequences, bytes and text *)

Range(s) == {s[i] : i \in 1..Len(s)}

\* Python: x in list
InList(x, s) == \E i \in 1..Len(s) : s[i] = x

Rep(b, n) == [i \in 1..n |-> b]

\* Python: s[a:] for 0 <= a
SliceFrom(s, a) == IF a >= Len(s) THEN <<>> ELSE SubSeq(s, a + 1, Len(s))

\* Python: s[:n] for 0 <= n
SliceTo(s, n) == IF n >= Len(s) THEN s ELSE SubSeq(s, 1, n)

\* Python None for the stored credentials (no text holds a negative code point)
None == <<-1>>

\* bytes.decode("utf-8") of bytes below 224: a byte below 128 is a character, a byte
\* of 194..223 followed by one of 128..191 is a character, anything else is a decode error
Utf8Decode(b) ==
    LET n == Len(b)
        IsCont(i) == b[i] >= 128 /\ b[i] <= 191
        IsLead(i) == b[i] >= 194 /\ b[i] <= 223
        ok == \A i \in 1..n : \/ b[i] < 128
                              \/ IsLead(i) /\ i < n /\ IsCont(i + 1)
                              \/ IsCont(i) /\ i > 1 /\ IsLead(i - 1)
        CodePoint(i) == IF b[i] < 128 THEN b[i]
                        ELSE IF IsCont(i) THEN -1
                        ELSE (b[i] - 192) * 64 + (b[i + 1] - 128)
    IN  [ok |-> ok,
         text |-> IF ok THEN SelectSeq([i \in 1..n |-> CodePoint(i)], LAMBDA cp : cp >= 0)
                  ELSE <<>>]

\* str.encode("utf-8") for code points below 2048
RECURSIVE Utf8Encode(_)
Utf8Encode(t) ==
    IF t = <<>> THEN <<>>
    ELSE IF Len(t) = 1
         THEN IF t[1] < 128 THEN <<t[1]>> ELSE <<192 + (t[1] \div 64), 128 + (t[1] % 64)>>
    ELSE Utf8Encode(SubSeq(t, 1, Len(t) \div 2))
         \o Utf8Encode(SubSeq(t, Len(t) \div 2 + 1, Len(t)))

\* str.isspace for the code points below 256
IsSpace(c) == c \in {9, 10, 11, 12, 13, 28, 29, 30, 31, 32, 133, 160}

\* str.strip()
RECURSIVE LStrip(_)
LStrip(t) == IF t # <<>> /\ IsSpace(t[1]) THEN LStrip(Tail(t)) ELSE t
RECURSIVE RStrip(_)
RStrip(t) == IF t # <<>> /\ IsSpace(t[Len(t)]) THEN RStrip(SubSeq(t, 1, Len(t) - 1)) ELSE t
Strip(t) == RStrip(LStrip(t))

\* str.upper() for the code points below 224 other than 181 and 223 (ASCII letters change)
Upper(t) == [i \in 1..Len(t) |-> IF t[i] >= 97 /\ t[i] <= 122 THEN t[i] - 32 ELSE t[i]]

\* str.startswith
StartsWith(t, p) == Len(t) >= Len(p) /\ SubSeq(t, 1, Len(p)) = p

IsHexDigit(c) == (c >= 48 /\ c <= 57) \/ (c >= 97 /\ c <= 102) \/ (c >= 65 /\ c <= 70)

-----------------------------------------------------------------------------
(* Constants of the three programs *)

BLE_SVC == "ble_svc"
BLE_SERVICE == "ble_service"
PLAN_Z == "plan_z"
Variants == {BLE_SVC, BLE_SERVICE, PLAN_Z}

GATT_SERVICE_IFACE == "org.bluez.GattService1"
GATT_CHRC_IFACE == "org.bluez.GattCharacteristic1"
GATT_DESC_IFACE == "org.bluez.GattDescriptor1"

OK == "ok"
PENDING == "pending"
ERR_NOT_PERMITTED == "org.bluez.Error.NotPermitted"
ERR_WRITE_NOT_PERMITTED == "org.bluez.Error.WriteNotPermitted"
ERR_NOT_SUPPORTED == "org.bluez.Error.NotSupported"
ERR_INVALID_VALUE_LENGTH == "org.bluez.Error.InvalidValueLength"
ERR_FAILED == "org.bluez.Error.Failed"

\* ble_svc.py
svc_APP_PATH == "/com/automationwise/btpifi"
svc_ADVERTISEMENT_PATH == "/com/automationwise/btpifi/advertisement0"
svc_SERVICE_PATH == "/com/automationwise/btpifi/service0"
svc_CHAR_RW_PATH == "/com/automationwise/btpifi/service0/char0"
svc_CHAR_SCAN_PATH == "/com/automationwise/btpifi/service0/char1"
svc_CHAR_SSID_PATH == "/com/automationwise/btpifi/service0/char2"
svc_CHAR_PSK_PATH == "/com/automationwise/btpifi/service0/char3"
svc_DESC_RW_PATH == "/com/automationwise/btpifi/service0/char0/desc0"
svc_DESC_SCAN_PATH == "/com/automationwise/btpifi/service0/char1/desc0"
svc_DESC_SSID_PATH == "/com/automationwise/btpifi/service0/char2/desc0"
svc_DESC_PSK_PATH == "/com/automationwise/btpifi/service0/char3/desc0"
svc_SERVICE_UUID == "133934e0-01f5-4054-a88f-0136e064c49e"
svc_CHAR_READ_WRITE_UUID == "133934e1-01f5-4054-a88f-0136e064c49e"
svc_WIFI_SCAN_UUID == "133934e2-01f5-4054-a88f-0136e064c49e"
svc_WIFI_SET_SSID_UUID == "133934e3-01f5-4054-a88f-0136e064c49e"
svc_WIFI_SET_PSK_UUID == "133934e4-01f5-4054-a88f-0136e064c49e"
USER_DESC_UUID == "2901"

\* ble_service.py
py_APP_OBJECT_ROOT == "/com/btpifi"
py_ADVERTISEMENT_PATH == "/com/btpifi/advertisement0"
py_SERVICE_PATH == "/com/btpifi/service0"
py_CMD_CHAR_PATH == "/com/btpifi/service0/char0"
py_STATUS_CHAR_PATH == "/com/btpifi/service0/char1"
py_SSID_CHAR_PATH == "/com/btpifi/service0/char2"
py_SERVICE_UUID == "133934e0-01f5-4054-a88f-0136e064c49e"
py_CMD_CHAR_UUID == "133934e1-01f5-4054-a88f-0136e064c49e"
py_STATUS_CHAR_UUID == "133934e2-01f5-4054-a88f-0136e064c49e"
py_SSID_CHAR_UUID == "133934e3-01f5-4054-a88f-0136e064c49e"

\* plan_z.py
z_APP_PATH == "/com/example"
z_ADVERTISEMENT_PATH == "/com/example/advertisement0"
z_SERVICE_PATH == "/com/example/service0"
z_CHAR_RW_PATH == "/com/example/service0/char0"
z_CHAR_SCAN_PATH == "/com/example/service0/char1"
z_DESC_RW_PATH == "/com/example/service0/char0/desc0"
z_DESC_SCAN_PATH == "/com/example/service0/char1/desc0"
z_SERVICE_UUID == "12345678-1234-5678-1234-56789abcdef0"
z_CHAR_READ_WRITE_UUID == "12345678-1234-5678-1234-56789abcdef1"
z_WIFI_SCAN_UUID == "12345678-1234-5678-1234-56789abcdef2"

\* byte strings of the programs
B_Idle == <<73, 100, 108, 101>>
B_EmptyJsonList == <<91, 93>>
B_Scanning == <<83, 99, 97, 110, 110, 105, 110, 103, 46, 46, 46>>
B_ScanComplete == <<83, 99, 97, 110, 32, 67, 111, 109, 112, 108, 101, 116, 101>>
B_Connecting == <<67, 111, 110, 110, 101, 99, 116, 105, 110, 103, 46, 46, 46>>
B_Connected == <<67, 111, 110, 110, 101, 99, 116, 101, 100>>
B_SimulatedSsids == <<91, 34, 77, 121, 78, 101, 116, 34, 44, 32, 34, 65, 110, 111, 116, 104,
                      101, 114, 83, 83, 73, 68, 34, 44, 32, 34, 72, 111, 109, 101, 87, 105,
                      102, 105, 34, 93>>
T_UnknownPrefix == <<69, 114, 114, 111, 114, 58, 32, 85, 110, 107, 110, 111, 119, 110, 32,
                     99, 111, 109, 109, 97, 110, 100, 32, 39>>
T_Quote == <<39>>
T_SCAN == <<83, 67, 65, 78>>
T_CONNECT == <<67, 79, 78, 78, 69, 67, 84>>
B_InitialValue == <<73, 110, 105, 116, 105, 97, 108, 32, 86, 97, 108, 117, 101>>
B_DescRw == <<82, 101, 97, 100, 47, 87, 114, 105, 116, 101, 32, 86, 97, 108, 117, 101>>
B_DescScan == <<87, 105, 70, 105, 32, 83, 99, 97, 110, 32, 84, 114, 105, 103, 103, 101, 114,
                47, 82, 101, 115, 117, 108, 116>>
B_DescSsid == <<83, 101, 116, 32, 84, 97, 114, 103, 101, 116, 32, 83, 83, 73, 68>>
B_DescPsk == <<83, 101, 116, 32, 84, 97, 114, 103, 101, 116, 32, 80, 83, 75>>

-----------------------------------------------------------------------------
(* The objects main() constructs: class, constructor arguments, initial _value *)

GattObj(path, kind, cls, uuid, flags, parent, init) ==
    [path |-> path, kind |-> kind, cls |-> cls, uuid |-> uuid, flags |-> flags,
     parent |-> parent, init |-> init]

svc_Objects ==
    << GattObj(svc_SERVICE_PATH, "service", "BleService", svc_SERVICE_UUID, <<>>, "", <<>>),
       GattObj(svc_CHAR_RW_PATH, "characteristic", "ReadWriteCharacteristicImpl",
               svc_CHAR_READ_WRITE_UUID, <<"read", "write">>, svc_SERVICE_PATH, B_InitialValue),
       GattObj(svc_CHAR_SCAN_PATH, "characteristic", "WifiScanCharacteristicImpl",
               svc_WIFI_SCAN_UUID, <<"read">>, svc_SERVICE_PATH, <<>>),
       GattObj(svc_CHAR_SSID_PATH, "characteristic", "SetSsidCharacteristicImpl",
               svc_WIFI_SET_SSID_UUID, <<"write">>, svc_SERVICE_PATH, <<>>),
       GattObj(svc_CHAR_PSK_PATH, "characteristic", "SetPskCharacteristicImpl",
               svc_WIFI_SET_PSK_UUID, <<"write">>, svc_SERVICE_PATH, <<>>),
       GattObj(svc_DESC_RW_PATH, "descriptor", "UserDescriptionDescriptorImpl",
               USER_DESC_UUID, <<"read">>, svc_CHAR_RW_PATH, B_DescRw),
       GattObj(svc_DESC_SCAN_PATH, "descriptor", "UserDescriptionDescriptorImpl",
               USER_DESC_UUID, <<"read">>, svc_CHAR_SCAN_PATH, B_DescScan),
       GattObj(svc_DESC_SSID_PATH, "descriptor", "UserDescriptionDescriptorImpl",
               USER_DESC_UUID, <<"read">>, svc_CHAR_SSID_PATH, B_DescSsid),
       GattObj(svc_DESC_PSK_PATH, "descriptor", "UserDescriptionDescriptorImpl",
               USER_DESC_UUID, <<"read">>, svc_CHAR_PSK_PATH, B_DescPsk) >>

py_Objects ==
    << GattObj(py_CMD_CHAR_PATH, "characteristic", "WifiCommandCharacteristic",
               py_CMD_CHAR_UUID, <<"write", "write-without-response">>, py_SERVICE_PATH, <<>>),
       GattObj(py_STATUS_CHAR_PATH, "characteristic", "WifiStatusCharacteristic",
               py_STATUS_CHAR_UUID, <<"read", "notify">>, py_SERVICE_PATH, B_Idle),
       GattObj(py_SSID_CHAR_PATH, "characteristic", "ScannedSSIDsCharacteristic",
               py_SSID_CHAR_UUID, <<"read", "notify">>, py_SERVICE_PATH, B_EmptyJsonList),
       GattObj(py_SERVICE_PATH, "service", "WifiConfigService", py_SERVICE_UUID, <<>>, "", <<>>) >>

z_Objects ==
    << GattObj(z_SERVICE_PATH, "service", "z_BleService", z_SERVICE_UUID, <<>>, "", <<>>),
       GattObj(z_CHAR_RW_PATH, "characteristic", "ReadWriteCharacteristic",
               z_CHAR_READ_WRITE_UUID, <<"read", "write">>, z_SERVICE_PATH, B_InitialValue),
       GattObj(z_CHAR_SCAN_PATH, "characteristic", "WifiScanCharacteristic",
               z_WIFI_SCAN_UUID, <<"read">>, z_SERVICE_PATH, <<>>),
       GattObj(z_DESC_RW_PATH, "descriptor", "UserDescriptionDescriptor",
               USER_DESC_UUID, <<"read">>, z_CHAR_RW_PATH, B_DescRw),
       GattObj(z_DESC_SCAN_PATH, "descriptor", "UserDescriptionDescriptor",
               USER_DESC_UUID, <<"read">>, z_CHAR_SCAN_PATH, B_DescScan) >>

ObjectsOf(v) == IF v = BLE_SVC THEN svc_Objects ELSE IF v = BLE_SERVICE THEN py_Objects ELSE z_Objects

AllObjects == Range(svc_Objects) \cup Range(py_Objects) \cup Range(z_Objects)

ObjectTable == [p \in {o.path : o \in AllObjects} |-> CHOOSE o \in AllObjects : o.path = p]

Info(p) == ObjectTable[p]

PathsOf(v) == {o.path : o \in Range(ObjectsOf(v))}
CharsOf(v) == {o.path : o \in {x \in Range(ObjectsOf(v)) : x.kind = "characteristic"}}
DescsOf(v) == {o.path : o \in {x \in Range(ObjectsOf(v)) : x.kind = "descriptor"}}
ServiceOf(v) == CHOOSE p \in PathsOf(v) : Info(p).kind = "service"

Flags(p) == Info(p).flags
Cls(p) == Info(p).cls

-----------------------------------------------------------------------------
(* Main program: object linking and registration with the object manager *)

SetupStep(kind, owner, paths) == [kind |-> kind, owner |-> owner, paths |-> paths]

\* ble_svc.py main(): link (603-611), then add to the Application manager (615-623)
svc_Setup ==
    << SetupStep("link_char", svc_SERVICE_PATH, <<svc_CHAR_RW_PATH>>),
       SetupStep("link_char", svc_SERVICE_PATH, <<svc_CHAR_SCAN_PATH>>),
       SetupStep("link_char", svc_SERVICE_PATH, <<svc_CHAR_SSID_PATH>>),
       SetupStep("link_char", svc_SERVICE_PATH, <<svc_CHAR_PSK_PATH>>),
       SetupStep("link_desc", svc_CHAR_RW_PATH, <<svc_DESC_RW_PATH>>),
       SetupStep("link_desc", svc_CHAR_SCAN_PATH, <<svc_DESC_SCAN_PATH>>),
       SetupStep("link_desc", svc_CHAR_SSID_PATH, <<svc_DESC_SSID_PATH>>),
       SetupStep("link_desc", svc_CHAR_PSK_PATH, <<svc_DESC_PSK_PATH>>),
       SetupStep("add", "", <<svc_SERVICE_PATH>>),
       SetupStep("add", "", <<svc_CHAR_RW_PATH>>),
       SetupStep("add", "", <<svc_CHAR_SCAN_PATH>>),
       SetupStep("add", "", <<svc_CHAR_SSID_PATH>>),
       SetupStep("add", "", <<svc_CHAR_PSK_PATH>>),
       SetupStep("add", "", <<svc_DESC_RW_PATH>>),
       SetupStep("add", "", <<svc_DESC_SCAN_PATH>>),
       SetupStep("add", "", <<svc_DESC_SSID_PATH>>),
       SetupStep("add", "", <<svc_DESC_PSK_PATH>>) >>

\* ble_service.py main(): the dict literal assigned to _app_objects (608-613)
py_Setup ==
    << SetupStep("add", "", <<py_SERVICE_PATH, py_CMD_CHAR_PATH, py_STATUS_CHAR_PATH,
                              py_SSID_CHAR_PATH>>) >>

\* plan_z.py main(): link (415-419), then add_object (423-428)
z_Setup ==
    << SetupStep("link_desc", z_CHAR_RW_PATH, <<z_DESC_RW_PATH>>),
       SetupStep("link_desc", z_CHAR_SCAN_PATH, <<z_DESC_SCAN_PATH>>),
       SetupStep("link_char", z_SERVICE_PATH, <<z_CHAR_RW_PATH>>),
       SetupStep("link_char", z_SERVICE_PATH, <<z_CHAR_SCAN_PATH>>),
       SetupStep("add", "", <<z_SERVICE_PATH>>),
       SetupStep("add", "", <<z_CHAR_RW_PATH>>),
       SetupStep("add", "", <<z_CHAR_SCAN_PATH>>),
       SetupStep("add", "", <<z_DESC_RW_PATH>>),
       SetupStep("add", "", <<z_DESC_SCAN_PATH>>) >>

SetupOf(v) == IF v = BLE_SVC THEN svc_Setup ELSE IF v = BLE_SERVICE THEN py_Setup ELSE z_Setup

NextStep == SetupOf(variant)[setupIdx + 1]

\* the paths main() has passed to the object manager so far, in order, each once
RECURSIVE AddedUpTo(_, _)
AddedUpTo(prog, n) ==
    IF n = 0 THEN <<>>
    ELSE LET before == AddedUpTo(prog, n - 1)
             new == IF prog[n].kind = "add" THEN prog[n].paths ELSE <<>>
         IN  before \o SelectSeq(new, LAMBDA p : ~InList(p, before))

\* faulty variant: the path is appended without the membership test
add_path_unconditional(list, path) == Append(list, path)

\* BleService.add_characteristic_path / BleCharacteristic.add_descriptor_path:
\* append unless already listed
add_path(list, path) == IF InList(path, list) THEN list ELSE Append(list, path)

-----------------------------------------------------------------------------
(* Property maps.  A dict of properties is a record; dbus_next's Variant is a *)
(* record of signature and value.                                             *)

Variant(sig, v) == [sig |-> sig, val |-> v]

\* array.array(typecode, data).tolist(): the typecodes Python 3 accepts are
\* b B u h H i I l L q Q f d; any other raises ValueError ("bad typecode")
ArrayTypecodes == {"b", "B", "u", "h", "H", "i", "I", "l", "L", "q", "Q", "f", "d"}
array_tolist(typecode, data) ==
    [ok |-> typecode \in ArrayTypecodes, val |-> IF typecode \in ArrayTypecodes THEN data ELSE <<>>]

\* ble_service.py: the Value property getter of the three characteristics
py_Value(c) == array_tolist("y", value[c])

Notifying(c) == IF c \in DOMAIN notifying THEN notifying[c] ELSE FALSE

IfaceOfKind(kind) ==
    IF kind = "service" THEN GATT_SERVICE_IFACE
    ELSE IF kind = "characteristic" THEN GATT_CHRC_IFACE
    ELSE GATT_DESC_IFACE

\* faulty variant: the service's properties carry its stored PSK
svc_get_gatt_object_properties_with_psk(p) ==
    IF Info(p).kind = "service"
    THEN [UUID |-> Variant("s", Info(p).uuid), Primary |-> Variant("b", TRUE),
          Characteristics |-> Variant("ao", charPaths), TargetPsk |-> Variant("s", target_psk)]
    ELSE IF Info(p).kind = "characteristic"
    THEN [UUID |-> Variant("s", Info(p).uuid), Flags |-> Variant("as", Flags(p)),
          Service |-> Variant("o", Info(p).parent), Descriptors |-> Variant("ao", descPaths[p])]
    ELSE [UUID |-> Variant("s", Info(p).uuid), Flags |-> Variant("as", Flags(p)),
          Characteristic |-> Variant("o", Info(p).parent)]

\* ble_svc.py Application._get_gatt_object_properties (isinstance dispatch)
svc_get_gatt_object_properties(p) ==
    IF Info(p).kind = "service"
    THEN [UUID |-> Variant("s", Info(p).uuid), Primary |-> Variant("b", TRUE),
          Characteristics |-> Variant("ao", charPaths)]
    ELSE IF Info(p).kind = "characteristic"
    THEN [UUID |-> Variant("s", Info(p).uuid), Flags |-> Variant("as", Flags(p)),
          Service |-> Variant("o", Info(p).parent), Descriptors |-> Variant("ao", descPaths[p])]
    ELSE [UUID |-> Variant("s", Info(p).uuid), Flags |-> Variant("as", Flags(p)),
          Characteristic |-> Variant("o", Info(p).parent)]

\* ble_svc.py: the @dbus_property getters of BleService / BleCharacteristic /
\* BleDescriptor, boxed by dbus_next with the declared signature (GetAll)
svc_declared_properties(p) ==
    IF Cls(p) = "BleService"
    THEN [UUID |-> Variant("s", Info(p).uuid), Primary |-> Variant("b", TRUE),
          Characteristics |-> Variant("ao", charPaths)]
    ELSE IF Cls(p) = "UserDescriptionDescriptorImpl"
    THEN [UUID |-> Variant("s", Info(p).uuid), Flags |-> Variant("as", Flags(p)),
          Characteristic |-> Variant("o", Info(p).parent)]
    ELSE [UUID |-> Variant("s", Info(p).uuid), Flags |-> Variant("as", Flags(p)),
          Service |-> Variant("o", Info(p).parent), Descriptors |-> Variant("ao", descPaths[p])]

\* plan_z.py BaseGattInterface.get_properties_for_om over _properties_dict
z_get_properties_for_om(p) ==
    IF Info(p).kind = "service"
    THEN [UUID |-> Variant("s", Info(p).uuid), Primary |-> Variant("b", TRUE),
          Characteristics |-> Variant("ao", charPaths)]
    ELSE IF Info(p).kind = "characteristic"
    THEN [UUID |-> Variant("s", Info(p).uuid), Flags |-> Variant("as", Flags(p)),
          Service |-> Variant("o", Info(p).parent), Descriptors |-> Variant("ao", descPaths[p])]
    ELSE [UUID |-> Variant("s", Info(p).uuid), Flags |-> Variant("as", Flags(p)),
          Characteristic |-> Variant("o", Info(p).parent)]

\* plan_z.py get_interfaces_and_properties: the value main() hands to add_object
z_get_interfaces_and_properties(p) ==
    [iface |-> IfaceOfKind(Info(p).kind), props |-> z_get_properties_for_om(p)]

\* ble_service.py get_properties of the service and of the characteristics;
\* ok is FALSE when evaluating the Value getter raises
py_get_properties(p) ==
    IF Info(p).kind = "service"
    THEN [ok |-> TRUE, iface |-> GATT_SERVICE_IFACE,
          props |-> [UUID |-> Info(p).uuid, Primary |-> TRUE, Characteristics |-> charPaths]]
    ELSE IF ~py_Value(p).ok
    THEN [ok |-> FALSE, iface |-> GATT_CHRC_IFACE, props |-> [UUID |-> Info(p).uuid]]
    ELSE [ok |-> TRUE, iface |-> GATT_CHRC_IFACE,
          props |-> [UUID |-> Info(p).uuid, Service |-> Info(p).parent,
                     Value |-> py_Value(p).val, Notifying |-> Notifying(p),
                     Flags |-> Flags(p)]]

-----------------------------------------------------------------------------
(* History: the last operation and, when it repeats the one before it (same  *)
(* operation, same object), that one too                                      *)

\* a Python exception pydbus hands back to the caller as a D-Bus error
ERR_VALUE_ERROR == "unknown.ValueError"
\* an exception that leaves a callback or a call into BlueZ
ERR_RAISED == "raised"
\* BlueZ's reply to the unregistration of what is not registered
ERR_DOES_NOT_EXIST == "org.bluez.Error.DoesNotExist"

Op(op, obj, res) ==
    [op |-> op, obj |-> obj, res |-> res,
     arg |-> <<>>,       \* the bytes passed in
     ret |-> <<>>,       \* the bytes returned
     bool |-> FALSE,     \* the boolean returned
     pre |-> FALSE,      \* the object's notifying state before the call
     emitted |-> <<>>,   \* the PropertiesChanged signals emitted during the call
     objs |-> <<>>,      \* the entries GetManagedObjects returned
     iface |-> "",       \* the interface name passed in
     name |-> "",        \* the property name passed in
     props |-> <<>>,     \* what Get / GetAll returned
     transport |-> TRUE] \* whether the bus carried the signals of a direct call

NoOp == Op("none", "", OK)

\* the operations whose immediate repetition is recorded
Repeatable == {"StartNotify", "StopNotify", "GetManagedObjects", "update_value"}

Remember(new) ==
    /\ lastOp' = new
    /\ prevOp' = IF new.op \in Repeatable /\ lastOp.op = new.op /\ lastOp.obj = new.obj
                 THEN lastOp ELSE NoOp

\* a PropertiesChanged signal of a characteristic
Signal(obj, prop, flag, val) == [obj |-> obj, prop |-> prop, flag |-> flag, val |-> val]

-----------------------------------------------------------------------------
(* Observed session of ble_service.py: the commands written to the command   *)
(* characteristic, the successive values of the status and SSID-list         *)
(* characteristics, and the Value notifications emitted.  The record is kept  *)
(* up to date only when 'on' is set.                                          *)

SessionStart(on) ==
    [on |-> on,
     cmds |-> <<>>,                  \* payloads written to the command characteristic
     status |-> <<B_Idle>>,          \* values the status characteristic has held
     ssids |-> <<B_EmptyJsonList>>,  \* values the SSID-list characteristic has held
     notes |-> <<>>,                 \* Value notifications emitted
     handled |-> <<>>,               \* commands handle_command has run on, in order
     sub |-> FALSE]                  \* both characteristics notifying since the first command

BothNotifying(n) == n[py_STATUS_CHAR_PATH] /\ n[py_SSID_CHAR_PATH]

IsCommandWrite(op) == op.op = "WriteValue" /\ op.obj = py_CMD_CHAR_PATH

Observed(s, op, val, n) ==
    [s EXCEPT
       !.cmds = IF IsCommandWrite(op) THEN Append(@, op.arg) ELSE @,
       !.status = IF val[py_STATUS_CHAR_PATH] # @[Len(@)]
                  THEN Append(@, val[py_STATUS_CHAR_PATH]) ELSE @,
       !.ssids = IF val[py_SSID_CHAR_PATH] # @[Len(@)]
                 THEN Append(@, val[py_SSID_CHAR_PATH]) ELSE @,
       !.notes = @ \o SelectSeq(op.emitted, LAMBDA e : e.prop = "Value"),
       !.handled = IF op.op = "handle_command" THEN Append(@, op.arg) ELSE @,
       !.sub = IF IsCommandWrite(op) /\ s.cmds = <<>> THEN BothNotifying(n)
               ELSE @ /\ BothNotifying(n)]

\* the last conjunct of every action
Observe ==
    session' = IF session.on /\ variant = BLE_SERVICE
               THEN Observed(session, lastOp', value', notifying')
               ELSE session

-----------------------------------------------------------------------------
(* The bus and BlueZ as main() drives them: the paths exported (registered as *)
(* D-Bus objects), in export order, and what is registered with BlueZ          *)

BusStart(ad_manager) ==
    [exported |-> <<>>,             \* paths exported on the bus, in export order
     registered |-> FALSE,          \* the GATT application is registered with BlueZ
     advertised |-> FALSE,          \* the advertisement is registered with BlueZ
     bluez_registered |-> FALSE,    \* ble_service.py: main()'s flag
     ad_manager |-> ad_manager,     \* ble_svc.py: the adapter has an advertising manager
     leftover |-> <<>>]             \* paths whose unexport raised

AppPathOf(v) ==
    IF v = BLE_SVC THEN svc_APP_PATH ELSE IF v = BLE_SERVICE THEN py_APP_OBJECT_ROOT ELSE z_APP_PATH

AdvertisementPathOf(v) ==
    IF v = BLE_SVC THEN svc_ADVERTISEMENT_PATH
    ELSE IF v = BLE_SERVICE THEN py_ADVERTISEMENT_PATH ELSE z_ADVERTISEMENT_PATH

\* the paths main() exports before it registers the application: the object manager,
\* then (ble_svc, plan_z) the GATT objects in the order they were added to it, or
\* (ble_service) the advertisement; ble_service.py exports no GATT object
ExportPlan(v) ==
    IF v = BLE_SERVICE THEN <<py_APP_OBJECT_ROOT, py_ADVERTISEMENT_PATH>>
    ELSE <<AppPathOf(v)>> \o AddedUpTo(SetupOf(v), Len(SetupOf(v)))

\* the bus once main() has reached its event loop
BusRunning(ad_manager) ==
    [exported |-> IF variant = BLE_SERVICE \/ ~ad_manager THEN ExportPlan(variant)
                  ELSE Append(ExportPlan(variant), AdvertisementPathOf(variant)),
     registered |-> TRUE,
     advertised |-> ad_manager,
     bluez_registered |-> variant = BLE_SERVICE,
     ad_manager |-> ad_manager,
     leftover |-> <<>>]

-----------------------------------------------------------------------------
(* Initial state: the objects as their constructors leave them *)

NotifyFieldChars(v) ==
    IF v = BLE_SVC THEN CharsOf(BLE_SVC)
    ELSE IF v = BLE_SERVICE THEN {py_STATUS_CHAR_PATH, py_SSID_CHAR_PATH}
    ELSE {}

\* WifiConfigService.__init__: [c.path for c in characteristics]
py_service_init_paths == <<py_CMD_CHAR_PATH, py_STATUS_CHAR_PATH, py_SSID_CHAR_PATH>>

InitObjects(v) ==
    /\ variant = v
    /\ charPaths = IF v = BLE_SERVICE THEN py_service_init_paths ELSE <<>>
    /\ descPaths = [c \in CharsOf(v) |-> <<>>]
    /\ value = [p \in CharsOf(v) \cup DescsOf(v) |-> Info(p).init]
    /\ notifying = [c \in NotifyFieldChars(v) |-> FALSE]
    /\ target_ssid = None
    /\ target_psk = None
    /\ current_status = B_Idle
    /\ scanned_ssids_json = B_EmptyJsonList
    /\ idleQ = <<>>
    /\ timers = <<>>
    /\ scanReads = <<>>
    /\ lastOp = NoOp
    /\ prevOp = NoOp

Init ==
    /\ \E v \in Variants : InitObjects(v)
    /\ pc = "setup"
    /\ setupIdx = 0
    /\ managed = <<>>
    /\ session = SessionStart(FALSE)
    /\ bus = BusStart(TRUE)
    /\ calls = <<>>
    /\ clients = 1

-----------------------------------------------------------------------------
(* main(): setup *)

\* dict[path] = entry: replaces the entry of a path already present, else appends
dict_set(m, path, entry) ==
    IF \E i \in 1..Len(m) : m[i].path = path
    THEN [i \in 1..Len(m) |-> IF m[i].path = path THEN entry ELSE m[i]]
    ELSE Append(m, entry)

\* what the object manager stores under a path: the instance (ble_svc, ble_service),
\* and for plan_z the interfaces-and-properties value the instance yields at that moment
ManagedEntry(path, instance) ==
    [path |-> path,
     inst |-> instance,
     snap |-> IF variant = PLAN_Z THEN <<z_get_interfaces_and_properties(instance)>> ELSE <<>>]

\* faulty variant: a path already present keeps its entry
add_gatt_object_keeping(m, path, instance) ==
    IF \E i \in 1..Len(m) : m[i].path = path THEN m
    ELSE Append(m, ManagedEntry(path, instance))

\* Application.add_gatt_object (ble_svc), Application.add_object (plan_z):
\* self.managed_gatt_objects[path] = instance
add_gatt_object(m, path, instance) == dict_set(m, path, ManagedEntry(path, instance))

RECURSIVE AddAll(_, _)
AddAll(m, paths) ==
    IF paths = <<>> THEN m ELSE AddAll(add_gatt_object(m, Head(paths), Head(paths)), Tail(paths))

InSetup == pc = "setup" /\ setupIdx < Len(SetupOf(variant))

AddCharacteristicPath ==
    /\ InSetup
    /\ NextStep.kind = "link_char"
    /\ charPaths' = add_path(charPaths, NextStep.paths[1])
    /\ setupIdx' = setupIdx + 1
    /\ Remember(Op("add_characteristic_path", NextStep.owner, OK))
    /\ UNCHANGED <<variant, clients, bus, calls, pc, managed, descPaths, value, notifying, target_ssid, target_psk,
                   current_status, scanned_ssids_json, idleQ, timers, scanReads>>
    /\ Observe

AddDescriptorPath ==
    /\ InSetup
    /\ NextStep.kind = "link_desc"
    /\ descPaths' = [descPaths EXCEPT ![NextStep.owner] = add_path(@, NextStep.paths[1])]
    /\ setupIdx' = setupIdx + 1
    /\ Remember(Op("add_descriptor_path", NextStep.owner, OK))
    /\ UNCHANGED <<variant, clients, bus, calls, pc, managed, charPaths, value, notifying, target_ssid, target_psk,
                   current_status, scanned_ssids_json, idleQ, timers, scanReads>>
    /\ Observe

AddObject ==
    /\ InSetup
    /\ NextStep.kind = "add"
    /\ managed' = AddAll(managed, NextStep.paths)
    /\ setupIdx' = setupIdx + 1
    /\ Remember(Op("add_object", NextStep.paths[1], OK))
    /\ UNCHANGED <<variant, clients, bus, calls, pc, charPaths, descPaths, value, notifying, target_ssid, target_psk,
                   current_status, scanned_ssids_json, idleQ, timers, scanReads>>
    /\ Observe

\* export of the objects and RegisterApplication: GATT operations are served from here on
RegisterApplication ==
    /\ pc = "setup"
    /\ setupIdx = Len(SetupOf(variant))
    /\ pc' = "running"
    /\ bus' = BusRunning(bus.ad_manager)
    /\ Remember(Op("RegisterApplication", "", OK))
    /\ UNCHANGED <<variant, clients, calls, setupIdx, managed, charPaths, descPaths, value, notifying,
                   target_ssid, target_psk, current_status, scanned_ssids_json, idleQ,
                   timers, scanReads>>
    /\ Observe

Running == pc = "running"

-----------------------------------------------------------------------------
(* ReadValue *)

ReadResult(res, ret) == [res |-> res, ret |-> ret]

\* 'read' in self.flags
CanRead(flags) == InList("read", flags)

\* ble_svc.py BleCharacteristic.ReadValue
BleCharacteristic_ReadValue(c, val, offset) ==
    IF ~CanRead(Flags(c)) THEN ReadResult(ERR_NOT_PERMITTED, <<>>)
    ELSE ReadResult(OK, SliceFrom(val, offset))

\* ble_svc.py BleDescriptor.ReadValue
BleDescriptor_ReadValue(d, offset) ==
    IF ~CanRead(Flags(d)) THEN ReadResult(ERR_NOT_PERMITTED, <<>>)
    ELSE ReadResult(OK, SliceFrom(value[d], offset))

\* ble_service.py WifiStatusCharacteristic.ReadValue, ScannedSSIDsCharacteristic.ReadValue:
\* return array.array('y', self._value).tolist()
py_status_ReadValue(c) ==
    IF array_tolist("y", value[c]).ok THEN ReadResult(OK, array_tolist("y", value[c]).val)
    ELSE ReadResult(ERR_VALUE_ERROR, <<>>)

\* the ReadValue that runs for an object, by its class (scan characteristics: see below)
ReadValueOutcome(o, offset) ==
    CASE Cls(o) = "ReadWriteCharacteristicImpl" -> BleCharacteristic_ReadValue(o, value[o], offset)
      [] Cls(o) \in {"SetSsidCharacteristicImpl", "SetPskCharacteristicImpl"} ->
            ReadResult(ERR_NOT_PERMITTED, <<>>)
      [] Cls(o) = "UserDescriptionDescriptorImpl" -> BleDescriptor_ReadValue(o, offset)
      [] Cls(o) = "WifiCommandCharacteristic" -> ReadResult(ERR_NOT_PERMITTED, <<>>)
      [] Cls(o) \in {"WifiStatusCharacteristic", "ScannedSSIDsCharacteristic"} ->
            py_status_ReadValue(o)
      [] Cls(o) \in {"ReadWriteCharacteristic", "UserDescriptionDescriptor"} ->
            ReadResult(OK, value[o])

ScanClasses == {"WifiScanCharacteristicImpl", "WifiScanCharacteristic"}

Offsets == 0..MaxOffset

\* the handlers that look at options['offset']
OffsetClasses == {"ReadWriteCharacteristicImpl", "WifiScanCharacteristicImpl",
                  "UserDescriptionDescriptorImpl"}
OffsetsFor(o) == IF Cls(o) \in OffsetClasses THEN Offsets ELSE {0}

ReadValue(o, offset) ==
    /\ Running
    /\ Cls(o) \notin ScanClasses
    /\ Remember([Op("ReadValue", o, ReadValueOutcome(o, offset).res) EXCEPT
                    !.ret = ReadValueOutcome(o, offset).ret, !.pre = Notifying(o)])
    /\ UNCHANGED <<variant, clients, bus, calls, pc, setupIdx, managed, charPaths, descPaths, value, notifying,
                   target_ssid, target_psk, current_status, scanned_ssids_json, idleQ,
                   timers, scanReads>>
    /\ Observe

(* ReadValue of the scan characteristic: the scan runs in the executor, other *)
(* handlers run while it is awaited                                           *)

T_NetA == <<78, 101, 116, 65>>
T_NetB == <<78, 101, 116, 66>>
T_ssids == <<115, 115, 105, 100, 115>>
T_error == <<101, 114, 114, 111, 114>>
T_nmcli_not_found == <<110, 109, 99, 108, 105, 32, 110, 111, 116, 32, 102, 111, 117, 110, 100>>
T_failed_to_process == <<70, 97, 105, 108, 101, 100, 32, 116, 111, 32, 112, 114, 111, 99,
                         101, 115, 115, 32, 115, 99, 97, 110, 58, 32>>
T_executor == <<101, 120, 101, 99, 117, 116, 111, 114>>

\* what awaiting run_in_executor(None, run_wifi_scan) yields: a dict of SSIDs,
\* an error dict, or an exception out of the executor
ScanDict(isError, ssids, error) == [isError |-> isError, ssids |-> ssids, error |-> error]
ScanOutcomes ==
    { [raised |-> FALSE, dict |-> ScanDict(FALSE, <<T_NetA, T_NetB>>, <<>>)],
      [raised |-> FALSE, dict |-> ScanDict(TRUE, <<>>, T_nmcli_not_found)],
      [raised |-> TRUE, dict |-> ScanDict(TRUE, <<>>, T_executor)] }

\* json.dumps of a str without characters that need escaping
JsonString(t) == <<34>> \o t \o <<34>>
RECURSIVE JsonItems(_)
JsonItems(l) ==
    IF l = <<>> THEN <<>>
    ELSE IF Len(l) = 1 THEN JsonString(l[1])
    ELSE JsonString(l[1]) \o <<44, 32>> \o JsonItems(Tail(l))
\* json.dumps({"ssids": [...]}) / json.dumps({"error": "..."}), UTF-8 encoded
json_dumps(d) ==
    IF d.isError THEN <<123>> \o JsonString(T_error) \o <<58, 32>> \o JsonString(d.error) \o <<125>>
    ELSE <<123>> \o JsonString(T_ssids) \o <<58, 32, 91>> \o JsonItems(d.ssids) \o <<93, 125>>

\* faulty variant: a failed scan is reported as a scan that found nothing
scan_result_bytes_hiding_errors(out) ==
    IF out.raised \/ out.dict.isError THEN json_dumps(ScanDict(FALSE, <<>>, <<>>))
    ELSE json_dumps(out.dict)

\* the bytes the scan ReadValue works with: the result, or the error of the except branch
scan_result_bytes(out) ==
    IF out.raised THEN json_dumps(ScanDict(TRUE, <<>>, T_failed_to_process \o out.dict.error))
    ELSE json_dumps(out.dict)

ScanReadStart(c, offset) ==
    /\ Running
    /\ Cls(c) \in ScanClasses
    /\ Len(scanReads) < clients * MaxScanReads
    /\ scanReads' = Append(scanReads, [obj |-> c, offset |-> offset])
    /\ Remember([Op("ReadValueStart", c, PENDING) EXCEPT !.pre = Notifying(c)])
    /\ UNCHANGED <<variant, clients, bus, calls, pc, setupIdx, managed, charPaths, descPaths, value, notifying,
                   target_ssid, target_psk, current_status, scanned_ssids_json, idleQ, timers>>
    /\ Observe

\* faulty variant: the base ReadValue runs on the value stored before this request's own
ScanReadFinish_stale(i, out) ==
    /\ Running
    /\ i \in 1..Len(scanReads)
    /\ LET c == scanReads[i].obj
           bytes == scan_result_bytes(out)
           r == IF variant = BLE_SVC
                THEN BleCharacteristic_ReadValue(c, value[c], scanReads[i].offset)
                ELSE ReadResult(OK, bytes)
       IN  /\ value' = IF variant = BLE_SVC THEN [value EXCEPT ![c] = bytes] ELSE value
           /\ Remember([Op("ReadValue", c, r.res) EXCEPT !.ret = r.ret, !.pre = Notifying(c)])
    /\ scanReads' = SubSeq(scanReads, 1, i - 1) \o SubSeq(scanReads, i + 1, Len(scanReads))
    /\ UNCHANGED <<variant, clients, bus, calls, pc, setupIdx, managed, charPaths, descPaths,
                   notifying, target_ssid, target_psk, current_status, scanned_ssids_json,
                   idleQ, timers>>
    /\ Observe

\* ble_svc.py WifiScanCharacteristicImpl.ReadValue after the await: store, then base ReadValue;
\* plan_z.py WifiScanCharacteristic.ReadValue after the await: return the bytes
ScanReadFinish(i, out) ==
    /\ Running
    /\ i \in 1..Len(scanReads)
    /\ LET c == scanReads[i].obj
           bytes == scan_result_bytes(out)
           r == IF variant = BLE_SVC
                THEN BleCharacteristic_ReadValue(c, bytes, scanReads[i].offset)
                ELSE ReadResult(OK, bytes)
       IN  /\ value' = IF variant = BLE_SVC THEN [value EXCEPT ![c] = bytes] ELSE value
           /\ Remember([Op("ReadValue", c, r.res) EXCEPT !.ret = r.ret, !.pre = Notifying(c)])
    /\ scanReads' = SubSeq(scanReads, 1, i - 1) \o SubSeq(scanReads, i + 1, Len(scanReads))
    /\ UNCHANGED <<variant, clients, bus, calls, pc, setupIdx, managed, charPaths, descPaths, notifying,
                   target_ssid, target_psk, current_status, scanned_ssids_json, idleQ, timers>>
    /\ Observe

-----------------------------------------------------------------------------
(* WriteValue *)

\* outcome of a WriteValue: the result and what the handler leaves in the object's
\* _value, in the service's credentials and in the GLib idle queue
WriteResult(res, val, ssid, psk, idle) ==
    [res |-> res, val |-> val, ssid |-> ssid, psk |-> psk, idle |-> idle]

Rejected(o, res) == WriteResult(res, value[o], target_ssid, target_psk, idleQ)
Stored(o, val) == WriteResult(OK, val, target_ssid, target_psk, idleQ)

\* faulty variant: the test forgets the 'write' flag
CanWrite_without_write(flags) == InList("write-without-response", flags)

\* 'write' in self.flags or 'write-without-response' in self.flags
CanWrite(flags) == InList("write", flags) \/ InList("write-without-response", flags)

\* the bytearray after: extend with zero bytes to offset+len(data), assign
\* [offset:required_len], trim to required_len
Splice(old, offset, data) ==
    LET required_len == offset + Len(data)
        extended == IF required_len > Len(old) THEN old \o Rep(0, required_len - Len(old))
                    ELSE old
        assigned == SliceTo(extended, offset) \o data \o SliceFrom(extended, required_len)
    IN  SliceTo(assigned, required_len)

\* ble_svc.py BleCharacteristic.WriteValue
BleCharacteristic_WriteValue(c, data, offset) ==
    IF ~CanWrite(Flags(c)) THEN Rejected(c, ERR_NOT_PERMITTED)
    ELSE Stored(c, Splice(value[c], offset, data))

\* ble_svc.py ReadWriteCharacteristicImpl.WriteValue: invalid UTF-8 is printed and dropped
svc_rw_WriteValue(c, data, offset) ==
    IF ~Utf8Decode(data).ok THEN Stored(c, value[c])
    ELSE BleCharacteristic_WriteValue(c, data, offset)

\* faulty variant: the SSID is stored before its length is checked
SetSsid_WriteValue_storing_first(c, data) ==
    LET decoded == Utf8Decode(data)
    IN  IF ~decoded.ok THEN Rejected(c, ERR_INVALID_VALUE_LENGTH)
        ELSE IF Len(data) > MAX_SSID_BYTES
        THEN WriteResult(ERR_FAILED, value[c], decoded.text, target_psk, idleQ)
        ELSE WriteResult(OK, value[c], decoded.text, target_psk, idleQ)

\* ble_svc.py SetSsidCharacteristicImpl.WriteValue.  The DBusError raised for a long
\* SSID is raised inside the try block, whose 'except Exception' turns it into Failed.
SetSsid_WriteValue(c, data) ==
    LET decoded == Utf8Decode(data)
    IN  IF ~decoded.ok THEN Rejected(c, ERR_INVALID_VALUE_LENGTH)
        ELSE IF Len(data) > MAX_SSID_BYTES THEN Rejected(c, ERR_FAILED)
        ELSE WriteResult(OK, value[c], decoded.text, target_psk, idleQ)

psk_is_hex(psk) == Len(psk) = PSK_HEX_LEN /\ \A i \in 1..Len(psk) : IsHexDigit(psk[i])

\* faulty variant: the bounds are tested on the number of bytes
SetPsk_WriteValue_counting_bytes(c, data) ==
    LET decoded == Utf8Decode(data)
        psk == decoded.text
    IN  IF ~decoded.ok THEN Rejected(c, ERR_INVALID_VALUE_LENGTH)
        ELSE IF Len(data) > 0 /\ ~psk_is_hex(psk)
                /\ (Len(data) < PSK_MIN_LEN \/ Len(data) > PSK_MAX_LEN)
        THEN Rejected(c, ERR_FAILED)
        ELSE WriteResult(OK, value[c], target_ssid, psk, idleQ)

\* faulty variant: the PSK is stored before its length is checked
SetPsk_WriteValue_storing_first(c, data) ==
    LET decoded == Utf8Decode(data)
        psk == decoded.text
    IN  IF ~decoded.ok THEN Rejected(c, ERR_INVALID_VALUE_LENGTH)
        ELSE IF Len(data) > 0 /\ ~psk_is_hex(psk)
                /\ (Len(psk) < PSK_MIN_LEN \/ Len(psk) > PSK_MAX_LEN)
        THEN WriteResult(ERR_FAILED, value[c], target_ssid, psk, idleQ)
        ELSE WriteResult(OK, value[c], target_ssid, psk, idleQ)

\* faulty variant: a PSK that is already set is kept
SetPsk_WriteValue_keeping_first(c, data) ==
    LET decoded == Utf8Decode(data)
        psk == decoded.text
    IN  IF ~decoded.ok THEN Rejected(c, ERR_INVALID_VALUE_LENGTH)
        ELSE IF Len(data) > 0 /\ ~psk_is_hex(psk)
                /\ (Len(psk) < PSK_MIN_LEN \/ Len(psk) > PSK_MAX_LEN)
        THEN Rejected(c, ERR_FAILED)
        ELSE WriteResult(OK, value[c], target_ssid,
                         IF target_psk = <<>> THEN psk ELSE target_psk, idleQ)

\* ble_svc.py SetPskCharacteristicImpl.WriteValue (same try/except shape)
SetPsk_WriteValue(c, data) ==
    LET decoded == Utf8Decode(data)
        psk == decoded.text
    IN  IF ~decoded.ok THEN Rejected(c, ERR_INVALID_VALUE_LENGTH)
        ELSE IF Len(data) > 0 /\ ~psk_is_hex(psk)
                /\ (Len(psk) < PSK_MIN_LEN \/ Len(psk) > PSK_MAX_LEN)
        THEN Rejected(c, ERR_FAILED)
        ELSE WriteResult(OK, value[c], target_ssid, psk, idleQ)

\* a GLib source: callback, the characteristic it is bound to, its argument, seconds left
Source(cb, obj, arg, left) == [cb |-> cb, obj |-> obj, arg |-> arg, left |-> left]

\* faulty variant: the new idle source is put in front of the pending ones
py_cmd_WriteValue_prepending(c, data) ==
    LET decoded == Utf8Decode(data)
    IN  IF ~decoded.ok THEN Stored(c, value[c])
        ELSE WriteResult(OK, value[c], target_ssid, target_psk,
                         <<Source("handle_command", c, Strip(decoded.text), 0)>> \o idleQ)

\* ble_service.py WifiCommandCharacteristic.WriteValue: decode, strip, idle_add(handle_command);
\* any exception is logged
py_cmd_WriteValue(c, data) ==
    LET decoded == Utf8Decode(data)
    IN  IF ~decoded.ok THEN Stored(c, value[c])
        ELSE WriteResult(OK, value[c], target_ssid, target_psk,
                         Append(idleQ, Source("handle_command", c, Strip(decoded.text), 0)))

\* plan_z.py ReadWriteCharacteristic.WriteValue
z_rw_WriteValue(c, data) ==
    IF ~Utf8Decode(data).ok THEN Stored(c, value[c]) ELSE Stored(c, data)

WriteValueOutcome(o, data, offset) ==
    CASE Cls(o) = "ReadWriteCharacteristicImpl" -> svc_rw_WriteValue(o, data, offset)
      [] Cls(o) = "WifiScanCharacteristicImpl" -> Rejected(o, ERR_NOT_PERMITTED)
      [] Cls(o) = "SetSsidCharacteristicImpl" -> SetSsid_WriteValue(o, data)
      [] Cls(o) = "SetPskCharacteristicImpl" -> SetPsk_WriteValue(o, data)
      [] Cls(o) = "UserDescriptionDescriptorImpl" -> Rejected(o, ERR_WRITE_NOT_PERMITTED)
      [] Cls(o) = "WifiCommandCharacteristic" -> py_cmd_WriteValue(o, data)
      [] Cls(o) \in {"WifiStatusCharacteristic", "ScannedSSIDsCharacteristic"} ->
            Rejected(o, ERR_WRITE_NOT_PERMITTED)
      [] Cls(o) = "ReadWriteCharacteristic" -> z_rw_WriteValue(o, data)
      [] Cls(o) \in {"WifiScanCharacteristic", "UserDescriptionDescriptor"} ->
            Rejected(o, ERR_NOT_PERMITTED)

\* the payloads clients write
P_A == <<65>>
P_eacute == <<195, 169>>
P_invalid == <<255>>
P_scan_lower == <<115, 99, 97, 110, 32>>
P_hi == <<104, 105>>
RwPayloads == {<<>>, P_eacute, P_invalid}
SsidPayloads == {Rep(97, MAX_SSID_BYTES), Rep(97, MAX_SSID_BYTES + 1), P_invalid}
PskPayloads == {Rep(112, PSK_MIN_LEN - 1), Rep(112, PSK_MIN_LEN), Rep(102, PSK_HEX_LEN),
                Rep(112, PSK_HEX_LEN), P_invalid}
CommandPayloads == {P_scan_lower, T_CONNECT, P_hi, P_invalid}

PayloadsFor(o) ==
    CASE Cls(o) \in {"ReadWriteCharacteristicImpl", "ReadWriteCharacteristic"} -> RwPayloads
      [] Cls(o) = "SetSsidCharacteristicImpl" -> SsidPayloads
      [] Cls(o) = "SetPskCharacteristicImpl" -> PskPayloads
      [] Cls(o) = "WifiCommandCharacteristic" -> CommandPayloads
      [] OTHER -> {P_A}

WriteValue(o, data, offset) ==
    /\ Running
    /\ Cls(o) = "WifiCommandCharacteristic" => Len(idleQ) + Len(timers) < MaxPending
    /\ (Cls(o) = "WifiCommandCharacteristic" /\ session.on) => Len(session.cmds) < MaxCommands
    /\ LET w == WriteValueOutcome(o, data, offset)
       IN  /\ value' = [value EXCEPT ![o] = w.val]
           /\ target_ssid' = w.ssid
           /\ target_psk' = w.psk
           /\ idleQ' = w.idle
           /\ Remember([Op("WriteValue", o, w.res) EXCEPT !.arg = data, !.pre = Notifying(o)])
    /\ UNCHANGED <<variant, clients, bus, calls, pc, setupIdx, managed, charPaths, descPaths, notifying,
                   current_status, scanned_ssids_json, timers, scanReads>>
    /\ Observe

-----------------------------------------------------------------------------
(* StartNotify / StopNotify *)

NotifyResult(res, notif, emitted) == [res |-> res, notif |-> notif, emitted |-> emitted]

\* 'notify' in self.flags
CanNotify(flags) == InList("notify", flags)

\* faulty variant: StartNotify without the test of the 'notify' flag
StartNotify_without_flag_test(c) ==
    IF notifying[c] THEN NotifyResult(OK, notifying[c], <<>>)
    ELSE NotifyResult(OK, TRUE, <<>>)

\* ble_svc.py BleCharacteristic.StartNotify
BleCharacteristic_StartNotify(c) ==
    IF ~CanNotify(Flags(c)) THEN NotifyResult(ERR_NOT_SUPPORTED, notifying[c], <<>>)
    ELSE IF notifying[c] THEN NotifyResult(OK, notifying[c], <<>>)
    ELSE NotifyResult(OK, TRUE, <<>>)

\* ble_svc.py BleCharacteristic.StopNotify
BleCharacteristic_StopNotify(c) ==
    IF ~CanNotify(Flags(c)) THEN NotifyResult(ERR_NOT_SUPPORTED, notifying[c], <<>>)
    ELSE IF ~notifying[c] THEN NotifyResult(OK, notifying[c], <<>>)
    ELSE NotifyResult(OK, FALSE, <<>>)

\* faulty variant: StartNotify without the early return when already notifying
StartNotify_without_early_return(c) ==
    NotifyResult(OK, TRUE, <<Signal(c, "Notifying", TRUE, <<>>)>>)

\* ble_service.py WifiStatusCharacteristic.StartNotify (inherited by ScannedSSIDsCharacteristic)
py_status_StartNotify(c) ==
    IF notifying[c] THEN NotifyResult(OK, notifying[c], <<>>)
    ELSE NotifyResult(OK, TRUE, <<Signal(c, "Notifying", TRUE, <<>>)>>)

\* ble_service.py WifiStatusCharacteristic.StopNotify
py_status_StopNotify(c) ==
    IF ~notifying[c] THEN NotifyResult(OK, notifying[c], <<>>)
    ELSE NotifyResult(OK, FALSE, <<Signal(c, "Notifying", FALSE, <<>>)>>)

\* faulty variant: StartNotify that returns normally instead of raising
StartNotify_returning(c) == NotifyResult(OK, FALSE, <<>>)

\* ble_service.py WifiCommandCharacteristic.StartNotify; plan_z.py BleCharacteristic.StartNotify
raise_NotSupported(c) == NotifyResult(ERR_NOT_SUPPORTED, FALSE, <<>>)

\* ble_service.py WifiCommandCharacteristic.StopNotify; plan_z.py BleCharacteristic.StopNotify: pass
StopNotify_pass(c) == NotifyResult(OK, FALSE, <<>>)

StartNotifyOutcome(c) ==
    CASE variant = BLE_SVC -> BleCharacteristic_StartNotify(c)
      [] Cls(c) \in {"WifiStatusCharacteristic", "ScannedSSIDsCharacteristic"} ->
            py_status_StartNotify(c)
      [] OTHER -> raise_NotSupported(c)

StopNotifyOutcome(c) ==
    CASE variant = BLE_SVC -> BleCharacteristic_StopNotify(c)
      [] Cls(c) \in {"WifiStatusCharacteristic", "ScannedSSIDsCharacteristic"} ->
            py_status_StopNotify(c)
      [] OTHER -> StopNotify_pass(c)

\* objects without a _notifying field keep none
SetNotifying(c, b) == IF c \in DOMAIN notifying THEN [notifying EXCEPT ![c] = b] ELSE notifying

StartNotify(c) ==
    /\ Running
    /\ notifying' = SetNotifying(c, StartNotifyOutcome(c).notif)
    /\ Remember([Op("StartNotify", c, StartNotifyOutcome(c).res) EXCEPT
                    !.pre = Notifying(c), !.emitted = StartNotifyOutcome(c).emitted])
    /\ UNCHANGED <<variant, clients, bus, calls, pc, setupIdx, managed, charPaths, descPaths, value,
                   target_ssid, target_psk, current_status, scanned_ssids_json, idleQ,
                   timers, scanReads>>
    /\ Observe

StopNotify(c) ==
    /\ Running
    /\ notifying' = SetNotifying(c, StopNotifyOutcome(c).notif)
    /\ Remember([Op("StopNotify", c, StopNotifyOutcome(c).res) EXCEPT
                    !.pre = Notifying(c), !.emitted = StopNotifyOutcome(c).emitted])
    /\ UNCHANGED <<variant, clients, bus, calls, pc, setupIdx, managed, charPaths, descPaths, value,
                   target_ssid, target_psk, current_status, scanned_ssids_json, idleQ,
                   timers, scanReads>>
    /\ Observe

-----------------------------------------------------------------------------
(* GetManagedObjects *)

\* one entry of the returned dict: path -> { interface name -> properties }
ObjEntry(path, iface, props) == [path |-> path, iface |-> iface, props |-> props]

GmoResult(res, objs) == [res |-> res, objs |-> objs]

\* ble_svc.py Application.GetManagedObjects: properties are read from the live instances
svc_GetManagedObjects(m) ==
    GmoResult(OK, [i \in 1..Len(m) |->
                     ObjEntry(m[i].path, IfaceOfKind(Info(m[i].inst).kind),
                              svc_get_gatt_object_properties(m[i].inst))])

\* ble_service.py ApplicationObjectManager.GetManagedObjects: an exception raised by a
\* get_properties() call leaves the method
py_GetManagedObjects(m) ==
    IF \E i \in 1..Len(m) : ~py_get_properties(m[i].inst).ok
    THEN GmoResult(ERR_VALUE_ERROR, <<>>)
    ELSE GmoResult(OK, [i \in 1..Len(m) |->
                          ObjEntry(m[i].path, py_get_properties(m[i].inst).iface,
                                   py_get_properties(m[i].inst).props)])

\* plan_z.py Application.GetManagedObjects: the stored dict
z_GetManagedObjects(m) ==
    GmoResult(OK, [i \in 1..Len(m) |->
                     ObjEntry(m[i].path, m[i].snap[1].iface, m[i].snap[1].props)])

GetManagedObjectsOutcome(m) ==
    CASE variant = BLE_SVC -> svc_GetManagedObjects(m)
      [] variant = BLE_SERVICE -> py_GetManagedObjects(m)
      [] variant = PLAN_Z -> z_GetManagedObjects(m)

\* faulty variant: the call pops the last entry off the dict
Managed_popped(m) == SliceTo(m, Len(m) - 1)

\* what the call leaves in the object manager's dict: the handlers only read it
ManagedAfterGet(m) == m

GetManagedObjects ==
    /\ Running
    /\ managed' = ManagedAfterGet(managed)
    /\ Remember([Op("GetManagedObjects", "", GetManagedObjectsOutcome(managed).res) EXCEPT
                    !.objs = GetManagedObjectsOutcome(managed).objs])
    /\ UNCHANGED <<variant, clients, bus, calls, pc, setupIdx, charPaths, descPaths, value, notifying,
                   target_ssid, target_psk, current_status, scanned_ssids_json, idleQ,
                   timers, scanReads>>
    /\ Observe

-----------------------------------------------------------------------------
(* ble_service.py: the callbacks the GLib main loop dispatches *)

\* the state the callbacks work on
LoopState ==
    [cur |-> current_status, sval |-> value[py_STATUS_CHAR_PATH],
     jsn |-> scanned_ssids_json, jval |-> value[py_SSID_CHAR_PATH],
     idle |-> idleQ, timers |-> timers]

\* faulty variant: update_value without the comparison
update_value_uncompared(old, value_bytes) == [ret |-> TRUE, val |-> value_bytes]

\* WifiStatusCharacteristic.update_value
update_value(old, value_bytes) ==
    IF value_bytes # old THEN [ret |-> TRUE, val |-> value_bytes]
    ELSE [ret |-> FALSE, val |-> old]

\* WifiCommandCharacteristic.update_status
update_status(L, new_status_bytes) ==
    IF new_status_bytes = L.cur THEN L
    ELSE LET u == update_value(L.sval, new_status_bytes)
         IN  [L EXCEPT !.cur = new_status_bytes,
                       !.sval = u.val,
                       !.idle = IF u.ret
                                THEN Append(@, Source("send_notification",
                                                      py_STATUS_CHAR_PATH, <<>>, 0))
                                ELSE @]

\* faulty variant: a command that is not known is dropped
handle_command_dropping_unknown(L, c, command) ==
    IF Upper(command) = T_SCAN
    THEN update_status([L EXCEPT !.timers = Append(@, Source("update_scan_result", c,
                                                             B_SimulatedSsids, SCAN_DELAY))],
                       B_Scanning)
    ELSE IF StartsWith(Upper(command), T_CONNECT)
    THEN update_status([L EXCEPT !.timers = Append(@, Source("update_connection_result", c,
                                                             B_Connected, CONNECT_DELAY))],
                       B_Connecting)
    ELSE L

\* faulty variant: the scan or connect runs to its end inside handle_command
handle_command_blocking(L, c, command) ==
    IF Upper(command) = T_SCAN
    THEN update_status(update_status(L, B_Scanning), B_ScanComplete)
    ELSE IF StartsWith(Upper(command), T_CONNECT)
    THEN update_status(update_status(L, B_Connecting), B_Connected)
    ELSE update_status(L, Utf8Encode(T_UnknownPrefix \o command \o T_Quote))

\* WifiCommandCharacteristic.handle_command
handle_command(L, c, command) ==
    IF Upper(command) = T_SCAN
    THEN update_status([L EXCEPT !.timers = Append(@, Source("update_scan_result", c,
                                                             B_SimulatedSsids, SCAN_DELAY))],
                       B_Scanning)
    ELSE IF StartsWith(Upper(command), T_CONNECT)
    THEN update_status([L EXCEPT !.timers = Append(@, Source("update_connection_result", c,
                                                             B_Connected, CONNECT_DELAY))],
                       B_Connecting)
    ELSE update_status(L, Utf8Encode(T_UnknownPrefix \o command \o T_Quote))

\* faulty variant: the status is left as it was
update_scan_result_without_status(L, result_ssids_bytes) ==
    IF result_ssids_bytes = L.jsn THEN L
    ELSE LET u == update_value(L.jval, result_ssids_bytes)
         IN  [L EXCEPT !.jsn = result_ssids_bytes,
                       !.jval = u.val,
                       !.idle = IF u.ret
                                THEN Append(@, Source("send_notification",
                                                      py_SSID_CHAR_PATH, <<>>, 0))
                                ELSE @]

\* WifiCommandCharacteristic.update_scan_result
update_scan_result(L, result_ssids_bytes) ==
    LET L1 == update_status(L, B_ScanComplete)
    IN  IF result_ssids_bytes = L1.jsn THEN L1
        ELSE LET u == update_value(L1.jval, result_ssids_bytes)
             IN  [L1 EXCEPT !.jsn = result_ssids_bytes,
                            !.jval = u.val,
                            !.idle = IF u.ret
                                     THEN Append(@, Source("send_notification",
                                                           py_SSID_CHAR_PATH, <<>>, 0))
                                     ELSE @]

\* faulty variant: the result of the connection is not reported
update_connection_result_dropped(L, result_status_bytes) == L

\* WifiCommandCharacteristic.update_connection_result
update_connection_result(L, result_status_bytes) == update_status(L, result_status_bytes)

\* faulty variant: the early return of send_notification yields True
send_notification_early_true(c, transport_ok) ==
    IF ~Notifying(c) THEN [ret |-> TRUE, emitted |-> <<>>, raised |-> FALSE]
    ELSE IF ~py_Value(c).ok \/ ~transport_ok
    THEN [ret |-> FALSE, emitted |-> <<>>, raised |-> FALSE]
    ELSE [ret |-> TRUE, emitted |-> <<Signal(c, "Value", FALSE, py_Value(c).val)>>,
          raised |-> FALSE]

\* faulty variant: without the try block an exception leaves the method
send_notification_uncaught(c, transport_ok) ==
    IF ~Notifying(c) THEN [ret |-> FALSE, emitted |-> <<>>, raised |-> FALSE]
    ELSE IF ~py_Value(c).ok \/ ~transport_ok
    THEN [ret |-> FALSE, emitted |-> <<>>, raised |-> TRUE]
    ELSE [ret |-> TRUE, emitted |-> <<Signal(c, "Value", FALSE, py_Value(c).val)>>,
          raised |-> FALSE]

\* WifiStatusCharacteristic.send_notification: the Value getter is evaluated and the
\* signal is emitted inside the try block; any exception, a failure of the bus to
\* carry the signal (transport_ok false) included, makes the method return False
send_notification(c, transport_ok) ==
    IF ~Notifying(c) THEN [ret |-> FALSE, emitted |-> <<>>, raised |-> FALSE]
    ELSE IF ~py_Value(c).ok \/ ~transport_ok
    THEN [ret |-> FALSE, emitted |-> <<>>, raised |-> FALSE]
    ELSE [ret |-> TRUE, emitted |-> <<Signal(c, "Value", FALSE, py_Value(c).val)>>,
          raised |-> FALSE]

\* writes a loop state back
StoreLoopState(L) ==
    /\ current_status' = L.cur
    /\ scanned_ssids_json' = L.jsn
    /\ value' = [value EXCEPT ![py_STATUS_CHAR_PATH] = L.sval, ![py_SSID_CHAR_PATH] = L.jval]
    /\ idleQ' = L.idle
    /\ timers' = L.timers

TimerDue == \E i \in 1..Len(timers) : timers[i].left = 0

RemoveAt(s, i) == SliceTo(s, i - 1) \o SliceFrom(s, i)

\* the main loop runs the oldest idle source; a timeout that is due goes first
DispatchHandleCommand ==
    /\ Running
    /\ idleQ # <<>>
    /\ ~TimerDue
    /\ Head(idleQ).cb = "handle_command"
    /\ StoreLoopState(handle_command([LoopState EXCEPT !.idle = Tail(idleQ)],
                                     Head(idleQ).obj, Head(idleQ).arg))
    /\ Remember([Op("handle_command", Head(idleQ).obj, OK) EXCEPT !.arg = Head(idleQ).arg])
    /\ UNCHANGED <<variant, clients, bus, calls, pc, setupIdx, managed, charPaths, descPaths, notifying,
                   target_ssid, target_psk, scanReads>>
    /\ Observe

DispatchSendNotification ==
    /\ Running
    /\ idleQ # <<>>
    /\ ~TimerDue
    /\ Head(idleQ).cb = "send_notification"
    /\ idleQ' = Tail(idleQ)
    /\ \E transport_ok \in BOOLEAN :
          LET r == send_notification(Head(idleQ).obj, transport_ok)
          IN  Remember([Op("send_notification", Head(idleQ).obj,
                           IF r.raised THEN ERR_RAISED ELSE OK) EXCEPT
                           !.pre = Notifying(Head(idleQ).obj),
                           !.bool = r.ret,
                           !.emitted = r.emitted])
    /\ UNCHANGED <<variant, clients, bus, calls, pc, setupIdx, managed, charPaths, descPaths, value, notifying,
                   target_ssid, target_psk, current_status, scanned_ssids_json, timers,
                   scanReads>>
    /\ Observe

\* a second passes with the loop idle
Tick ==
    /\ Running
    /\ timers # <<>>
    /\ idleQ = <<>>
    /\ ~TimerDue
    /\ timers' = [i \in 1..Len(timers) |-> [timers[i] EXCEPT !.left = @ - 1]]
    /\ Remember(Op("tick", "", OK))
    /\ UNCHANGED <<variant, clients, bus, calls, pc, setupIdx, managed, charPaths, descPaths, value, notifying,
                   target_ssid, target_psk, current_status, scanned_ssids_json, idleQ,
                   scanReads>>
    /\ Observe

FireTimer(i) ==
    /\ Running
    /\ i \in 1..Len(timers)
    /\ timers[i].left = 0
    /\ LET L == [LoopState EXCEPT !.timers = RemoveAt(timers, i)]
       IN  IF timers[i].cb = "update_scan_result"
           THEN StoreLoopState(update_scan_result(L, timers[i].arg))
           ELSE StoreLoopState(update_connection_result(L, timers[i].arg))
    /\ Remember([Op(timers[i].cb, timers[i].obj, OK) EXCEPT !.arg = timers[i].arg])
    /\ UNCHANGED <<variant, clients, bus, calls, pc, setupIdx, managed, charPaths, descPaths, notifying,
                   target_ssid, target_psk, scanReads>>
    /\ Observe

-----------------------------------------------------------------------------
(* The program *)

Next ==
    \/ AddCharacteristicPath
    \/ AddDescriptorPath
    \/ AddObject
    \/ RegisterApplication
    \/ \E o \in PathsOf(variant) \ {ServiceOf(variant)} :
          \E offset \in OffsetsFor(o) : ReadValue(o, offset)
    \/ \E c \in CharsOf(variant) : \E offset \in OffsetsFor(c) : ScanReadStart(c, offset)
    \/ \E i \in 1..Len(scanReads), out \in ScanOutcomes : ScanReadFinish(i, out)
    \/ \E o \in PathsOf(variant) \ {ServiceOf(variant)} :
          \E offset \in OffsetsFor(o), data \in PayloadsFor(o) : WriteValue(o, data, offset)
    \/ \E c \in CharsOf(variant) : StartNotify(c)
    \/ \E c \in CharsOf(variant) : StopNotify(c)
    \/ GetManagedObjects
    \/ DispatchHandleCommand
    \/ DispatchSendNotification
    \/ Tick
    \/ \E i \in 1..Len(timers) : FireTimer(i)

Spec == Init /\ [][Next]_vars

-----------------------------------------------------------------------------
(* ble_service.py: WifiStatusCharacteristic.update_value and send_notification *)
(* called directly on the status and SSID-list characteristics of the running *)
(* program, with the value drawn from a bounded set                           *)

StatusClasses == {"WifiStatusCharacteristic", "ScannedSSIDsCharacteristic"}

ApiValues == {B_Idle, B_Scanning, B_SimulatedSsids}

InitApi ==
    /\ InitObjects(BLE_SERVICE)
    /\ pc = "running"
    /\ setupIdx = Len(py_Setup)
    /\ managed = AddAll(<<>>, AddedUpTo(py_Setup, Len(py_Setup)))
    /\ session = SessionStart(FALSE)
    /\ bus = BusRunning(TRUE)
    /\ calls = <<>>
    /\ clients = 1

UpdateValueCall(c, v) ==
    /\ Running
    /\ Cls(c) \in StatusClasses
    /\ value' = [value EXCEPT ![c] = update_value(value[c], v).val]
    /\ Remember([Op("update_value", c, OK) EXCEPT
                    !.arg = v, !.bool = update_value(value[c], v).ret, !.pre = Notifying(c)])
    /\ UNCHANGED <<variant, clients, bus, calls, pc, setupIdx, managed, charPaths, descPaths, notifying,
                   target_ssid, target_psk, current_status, scanned_ssids_json, idleQ,
                   timers, scanReads>>
    /\ Observe

SendNotificationCall(c, transport_ok) ==
    /\ Running
    /\ Cls(c) \in StatusClasses
    /\ LET r == send_notification(c, transport_ok)
       IN  Remember([Op("send_notification", c, IF r.raised THEN ERR_RAISED ELSE OK) EXCEPT
                        !.pre = Notifying(c),
                        !.bool = r.ret,
                        !.emitted = r.emitted,
                        !.transport = transport_ok])
    /\ UNCHANGED <<variant, clients, bus, calls, pc, setupIdx, managed, charPaths, descPaths, value, notifying,
                   target_ssid, target_psk, current_status, scanned_ssids_json, idleQ,
                   timers, scanReads>>
    /\ Observe

NextApi ==
    \/ \E c \in CharsOf(variant), v \in ApiValues : UpdateValueCall(c, v)
    \/ \E c \in CharsOf(variant), transport_ok \in BOOLEAN : SendNotificationCall(c, transport_ok)
    \/ \E c \in CharsOf(variant) : StartNotify(c)
    \/ \E c \in CharsOf(variant) : StopNotify(c)

SpecApi == InitApi /\ [][NextApi]_vars

-----------------------------------------------------------------------------
(* ble_service.py: an observed session.  A client subscribes and unsubscribes *)
(* and writes at most MaxCommands commands; the main loop dispatches the idle *)
(* and timeout sources.                                                       *)

SessionPayloads == {T_SCAN, P_scan_lower, T_CONNECT, P_hi, P_invalid}

InitSession ==
    /\ InitObjects(BLE_SERVICE)
    /\ pc = "setup"
    /\ setupIdx = 0
    /\ managed = <<>>
    /\ session = SessionStart(TRUE)
    /\ bus = BusStart(TRUE)
    /\ calls = <<>>
    /\ clients = 1

NextSession ==
    \/ AddObject
    \/ RegisterApplication
    \/ \E data \in SessionPayloads : WriteValue(py_CMD_CHAR_PATH, data, 0)
    \/ \E c \in CharsOf(variant) : StartNotify(c)
    \/ \E c \in CharsOf(variant) : StopNotify(c)
    \/ DispatchHandleCommand
    \/ DispatchSendNotification
    \/ Tick
    \/ \E i \in 1..Len(timers) : FireTimer(i)

SpecSession == InitSession /\ [][NextSession]_vars

-----------------------------------------------------------------------------
(* ble_svc.py: provisioning.  A client writes SSIDs and PSKs of every length   *)
(* class to the Set-SSID and Set-PSK characteristics, reads the objects back, *)
(* subscribes and asks for the managed objects.                               *)

P_eacute_x(n) == [i \in 1..(2 * n) |-> IF i % 2 = 1 THEN 195 ELSE 169]

CredSsidPayloads ==
    {<<>>, Rep(97, 7), Rep(97, MAX_SSID_BYTES), Rep(97, MAX_SSID_BYTES + 1), Rep(97, 40),
     P_eacute_x(16), P_eacute_x(17), P_invalid, Rep(97, MAX_SSID_BYTES) \o P_invalid}

CredPskPayloads ==
    {<<>>, Rep(112, 1), Rep(112, PSK_MIN_LEN - 1), Rep(112, PSK_MIN_LEN),
     Rep(112, PSK_MAX_LEN), Rep(102, PSK_HEX_LEN), Rep(112, PSK_HEX_LEN),
     Rep(102, PSK_HEX_LEN - 1) \o <<103>>, Rep(102, PSK_HEX_LEN + 1),
     Rep(112, PSK_MIN_LEN - 2) \o P_eacute, Rep(112, PSK_MIN_LEN - 1) \o P_eacute,
     Rep(112, PSK_MAX_LEN - 1) \o P_eacute, P_invalid}

InitCred ==
    /\ InitObjects(BLE_SVC)
    /\ pc = "setup"
    /\ setupIdx = 0
    /\ managed = <<>>
    /\ session = SessionStart(FALSE)
    /\ bus = BusStart(TRUE)
    /\ calls = <<>>
    /\ clients = 1

NextCred ==
    \/ AddCharacteristicPath
    \/ AddDescriptorPath
    \/ AddObject
    \/ RegisterApplication
    \/ \E data \in CredSsidPayloads : WriteValue(svc_CHAR_SSID_PATH, data, 0)
    \/ \E data \in CredPskPayloads : WriteValue(svc_CHAR_PSK_PATH, data, 0)
    \/ \E o \in PathsOf(variant) \ {ServiceOf(variant)} :
          \E offset \in OffsetsFor(o) : ReadValue(o, offset)
    \/ \E c \in CharsOf(variant) : StartNotify(c)
    \/ \E c \in CharsOf(variant) : StopNotify(c)
    \/ GetManagedObjects

SpecCred == InitCred /\ [][NextCred]_vars

-----------------------------------------------------------------------------
(* ble_service.py, plan_z.py: the Get / GetAll / Set methods the classes      *)
(* define themselves (BluezPropertyInterface, BaseGattInterface)              *)

ERR_INVALID_ARGS == "org.freedesktop.DBus.Error.InvalidArgs"
ERR_PROPERTY_READ_ONLY == "org.freedesktop.DBus.Error.PropertyReadOnly"
\* ble_service.py spells the error names this way
py_ERR_INVALID_ARGS == "o.f.DBus.Error.InvalidArgs"
py_ERR_PROPERTY_READ_ONLY == "o.f.DBus.Error.PropertyReadOnly"

\* outcome of Get (props holds the value), GetAll (props holds the dict) and Set
PropResult(res, props) == [res |-> res, props |-> props]

\* ble_service.py GetAll of WifiConfigService and of the three characteristics: the
\* characteristics build the dict with get_properties(), which evaluates the Value getter
py_GetAll(o, interface_name) ==
    IF interface_name # IfaceOfKind(Info(o).kind) THEN PropResult(py_ERR_INVALID_ARGS, <<>>)
    ELSE IF ~py_get_properties(o).ok THEN PropResult(ERR_VALUE_ERROR, <<>>)
    ELSE PropResult(OK, <<py_get_properties(o).props>>)

\* ble_service.py BluezPropertyInterface.Get
py_Get(o, interface_name, prop_name) ==
    IF interface_name # IfaceOfKind(Info(o).kind) THEN PropResult(py_ERR_INVALID_ARGS, <<>>)
    ELSE LET all == py_GetAll(o, interface_name)
         IN  IF all.res # OK THEN all
             ELSE IF prop_name \in DOMAIN all.props[1]
             THEN PropResult(OK, <<all.props[1][prop_name]>>)
             ELSE PropResult(py_ERR_INVALID_ARGS, <<>>)

\* faulty variant: the call is accepted
py_Set_accepting(o, interface_name, prop_name, v) == PropResult(OK, <<>>)

\* ble_service.py BluezPropertyInterface.Set
py_Set(o, interface_name, prop_name, v) == PropResult(py_ERR_PROPERTY_READ_ONLY, <<>>)

\* plan_z.py BaseGattInterface.GetAll
z_GetAll(o, interface_name) ==
    IF interface_name # IfaceOfKind(Info(o).kind) THEN PropResult(ERR_INVALID_ARGS, <<>>)
    ELSE PropResult(OK, <<z_get_properties_for_om(o)>>)

\* plan_z.py BaseGattInterface.Get: _get_property_variant, KeyError -> InvalidArgs
z_Get(o, interface_name, property_name) ==
    IF interface_name # IfaceOfKind(Info(o).kind) THEN PropResult(ERR_INVALID_ARGS, <<>>)
    ELSE IF property_name \in DOMAIN z_get_properties_for_om(o)
    THEN PropResult(OK, <<z_get_properties_for_om(o)[property_name]>>)
    ELSE PropResult(ERR_INVALID_ARGS, <<>>)

\* plan_z.py BaseGattInterface.Set
z_Set(o, interface_name, property_name, v) == PropResult(ERR_PROPERTY_READ_ONLY, <<>>)

GetOutcome(o, iface, name) ==
    IF variant = BLE_SERVICE THEN py_Get(o, iface, name) ELSE z_Get(o, iface, name)

GetAllOutcome(o, iface) ==
    IF variant = BLE_SERVICE THEN py_GetAll(o, iface) ELSE z_GetAll(o, iface)

SetOutcome(o, iface, name, v) ==
    IF variant = BLE_SERVICE THEN py_Set(o, iface, name, v) ELSE z_Set(o, iface, name, v)

\* the programs whose classes define the three methods (ble_svc.py leaves them to dbus_next)
PropertyVariants == {BLE_SERVICE, PLAN_Z}

Get(o, iface, name) ==
    /\ Running
    /\ variant \in PropertyVariants
    /\ Remember([Op("Get", o, GetOutcome(o, iface, name).res) EXCEPT
                    !.iface = iface, !.name = name, !.props = GetOutcome(o, iface, name).props])
    /\ UNCHANGED <<variant, clients, bus, calls, pc, setupIdx, managed, charPaths, descPaths, value,
                   notifying, target_ssid, target_psk, current_status, scanned_ssids_json,
                   idleQ, timers, scanReads>>
    /\ Observe

GetAll(o, iface) ==
    /\ Running
    /\ variant \in PropertyVariants
    /\ Remember([Op("GetAll", o, GetAllOutcome(o, iface).res) EXCEPT
                    !.iface = iface, !.props = GetAllOutcome(o, iface).props])
    /\ UNCHANGED <<variant, clients, bus, calls, pc, setupIdx, managed, charPaths, descPaths, value,
                   notifying, target_ssid, target_psk, current_status, scanned_ssids_json,
                   idleQ, timers, scanReads>>
    /\ Observe

Set(o, iface, name, v) ==
    /\ Running
    /\ variant \in PropertyVariants
    /\ Remember([Op("Set", o, SetOutcome(o, iface, name, v).res) EXCEPT
                    !.iface = iface, !.name = name])
    /\ UNCHANGED <<variant, clients, bus, calls, pc, setupIdx, managed, charPaths, descPaths, value,
                   notifying, target_ssid, target_psk, current_status, scanned_ssids_json,
                   idleQ, timers, scanReads>>
    /\ Observe

\* the interface and property names and the values callers pass
IfaceNames == {GATT_SERVICE_IFACE, GATT_CHRC_IFACE, GATT_DESC_IFACE}
PropNames == {"UUID", "Primary", "Characteristics", "Flags", "Service", "Descriptors",
              "Characteristic", "Value", "Notifying", "Name"}
SetValues == {Variant("s", ""), Variant("s", "x")}

InitProps ==
    /\ \E v \in PropertyVariants : InitObjects(v)
    /\ pc = "setup"
    /\ setupIdx = 0
    /\ managed = <<>>
    /\ session = SessionStart(FALSE)
    /\ bus = BusStart(TRUE)
    /\ calls = <<>>
    /\ clients = 1

NextProps ==
    \/ AddCharacteristicPath
    \/ AddDescriptorPath
    \/ AddObject
    \/ RegisterApplication
    \/ \E o \in PathsOf(variant), i \in IfaceNames, n \in PropNames : Get(o, i, n)
    \/ \E o \in PathsOf(variant), i \in IfaceNames : GetAll(o, i)
    \/ \E o \in PathsOf(variant), i \in IfaceNames, n \in PropNames, v \in SetValues :
          Set(o, i, n, v)
    \/ \E c \in CharsOf(variant) : StartNotify(c)
    \/ \E c \in CharsOf(variant) : StopNotify(c)

SpecProps == InitProps /\ [][NextProps]_vars

-----------------------------------------------------------------------------
(* ble_svc.py: reads and writes at an offset.  A client writes short payloads *)
(* to the read/write characteristic and to a descriptor at every offset up to *)
(* MaxOffset and reads the objects back at every such offset.                 *)

BytesPayloads == {<<>>, P_A, P_hi, P_eacute, P_invalid}

NextBytes ==
    \/ AddCharacteristicPath
    \/ AddDescriptorPath
    \/ AddObject
    \/ RegisterApplication
    \/ \E o \in PathsOf(variant) \ {ServiceOf(variant)}, offset \in Offsets :
          ReadValue(o, offset)
    \/ \E o \in {svc_CHAR_RW_PATH, svc_DESC_RW_PATH}, offset \in Offsets,
          data \in BytesPayloads : WriteValue(o, data, offset)

SpecBytes == InitCred /\ [][NextBytes]_vars

-----------------------------------------------------------------------------
(* ble_svc.py, plan_z.py: the construction calls made directly on freshly     *)
(* constructed objects, with arguments drawn from the program's paths:        *)
(* add_characteristic_path, add_descriptor_path, then add_gatt_object /       *)
(* add_object.  As in main(), the objects are linked before they are handed   *)
(* to the object manager.                                                     *)

Call(op, obj, arg) == [op |-> op, obj |-> obj, arg |-> arg]

\* the arguments of the calls: the read/write and scan characteristics, their
\* descriptors, the service
LinkChars(v) ==
    {c \in CharsOf(v) : Cls(c) \in {"ReadWriteCharacteristicImpl", "WifiScanCharacteristicImpl",
                                    "ReadWriteCharacteristic", "WifiScanCharacteristic"}}
LinkDescs(v) == {d \in DescsOf(v) : Info(d).parent \in LinkChars(v)}
RegistryPaths(v) == {ServiceOf(v)} \cup {c \in LinkChars(v) : CanWrite(Flags(c))}
RegistryInstances(v) == {ServiceOf(v)} \cup LinkChars(v)

InitBuild ==
    /\ \E v \in {BLE_SVC, PLAN_Z} : InitObjects(v)
    /\ pc = "setup"
    /\ setupIdx = 0
    /\ managed = <<>>
    /\ session = SessionStart(FALSE)
    /\ bus = BusStart(TRUE)
    /\ calls = <<>>
    /\ clients = 1

Constructing == pc = "setup" /\ setupIdx = 0 /\ Len(calls) < MaxCalls

AddCharacteristicPathCall(path) ==
    /\ Constructing
    /\ managed = <<>>
    /\ charPaths' = add_path(charPaths, path)
    /\ calls' = Append(calls, Call("add_characteristic_path", ServiceOf(variant), path))
    /\ Remember(Op("add_characteristic_path", ServiceOf(variant), OK))
    /\ UNCHANGED <<variant, clients, bus, pc, setupIdx, managed, descPaths, value, notifying,
                   target_ssid, target_psk, current_status, scanned_ssids_json, idleQ,
                   timers, scanReads>>
    /\ Observe

AddDescriptorPathCall(c, path) ==
    /\ Constructing
    /\ managed = <<>>
    /\ descPaths' = [descPaths EXCEPT ![c] = add_path(@, path)]
    /\ calls' = Append(calls, Call("add_descriptor_path", c, path))
    /\ Remember(Op("add_descriptor_path", c, OK))
    /\ UNCHANGED <<variant, clients, bus, pc, setupIdx, managed, charPaths, value, notifying,
                   target_ssid, target_psk, current_status, scanned_ssids_json, idleQ,
                   timers, scanReads>>
    /\ Observe

AddObjectCall(path, instance) ==
    /\ Constructing
    /\ managed' = add_gatt_object(managed, path, instance)
    /\ calls' = Append(calls, Call("add_gatt_object", path, instance))
    /\ Remember(Op("add_gatt_object", path, OK))
    /\ UNCHANGED <<variant, clients, bus, pc, setupIdx, charPaths, descPaths, value, notifying,
                   target_ssid, target_psk, current_status, scanned_ssids_json, idleQ,
                   timers, scanReads>>
    /\ Observe

NextBuild ==
    \/ \E path \in LinkChars(variant) : AddCharacteristicPathCall(path)
    \/ \E c \in LinkChars(variant) : \E path \in LinkDescs(variant) :
          AddDescriptorPathCall(c, path)
    \/ \E path \in RegistryPaths(variant) : \E instance \in RegistryInstances(variant) :
          AddObjectCall(path, instance)

SpecBuild == InitBuild /\ [][NextBuild]_vars

-----------------------------------------------------------------------------
(* main() statement by statement: export, registration with BlueZ, the event  *)
(* loop, and the cleanup of the finally blocks.  A call into BlueZ returns or *)
(* raises; BlueZ honours the unregistration of what is registered.  The       *)
(* action RegisterApplication above is the run of the export and registration *)
(* steps in which no call raises, taken as one step.                          *)

CallOutcomes == {OK, ERR_RAISED}

Exporting == pc = "setup" /\ setupIdx = Len(SetupOf(variant))

\* bus.export(path, instance) / with bus.register_object(path, ...): the next path
ExportObject ==
    /\ Exporting
    /\ Len(bus.exported) < Len(ExportPlan(variant))
    /\ bus' = [bus EXCEPT !.exported = Append(@, ExportPlan(variant)[Len(@) + 1])]
    /\ Remember(Op("export", ExportPlan(variant)[Len(bus.exported) + 1], OK))
    /\ UNCHANGED <<variant, clients, calls, pc, setupIdx, managed, charPaths, descPaths, value,
                   notifying, target_ssid, target_psk, current_status, scanned_ssids_json,
                   idleQ, timers, scanReads>>
    /\ Observe

\* gatt_manager.call_register_application(APP_PATH, {}); an exception leads to the
\* except clauses and the finally block
CallRegisterApplication(outcome) ==
    /\ Exporting
    /\ Len(bus.exported) = Len(ExportPlan(variant))
    /\ bus' = [bus EXCEPT !.registered = (outcome = OK)]
    /\ pc' = IF outcome = OK THEN "advertise" ELSE "cleanup"
    /\ Remember(Op("call_register_application", AppPathOf(variant), outcome))
    /\ UNCHANGED <<variant, clients, calls, setupIdx, managed, charPaths, descPaths, value,
                   notifying, target_ssid, target_psk, current_status, scanned_ssids_json,
                   idleQ, timers, scanReads>>
    /\ Observe

\* ble_svc.py, plan_z.py: the advertisement is created and exported after the
\* application is registered (ble_svc.py: if the adapter has an advertising manager)
ExportAdvertisement ==
    /\ pc = "advertise"
    /\ variant # BLE_SERVICE
    /\ bus.ad_manager
    /\ ~InList(AdvertisementPathOf(variant), bus.exported)
    /\ bus' = [bus EXCEPT !.exported = Append(@, AdvertisementPathOf(variant))]
    /\ Remember(Op("export", AdvertisementPathOf(variant), OK))
    /\ UNCHANGED <<variant, clients, calls, pc, setupIdx, managed, charPaths, descPaths, value,
                   notifying, target_ssid, target_psk, current_status, scanned_ssids_json,
                   idleQ, timers, scanReads>>
    /\ Observe

\* ad_manager.call_register_advertisement(...) / ad_manager.RegisterAdvertisement(...);
\* ble_service.py sets bluez_registered once both registrations have returned;
\* ble_svc.py without an advertising manager skips the call
RegisterAdvertisement(outcome) ==
    /\ pc = "advertise"
    /\ bus.ad_manager => InList(AdvertisementPathOf(variant), bus.exported)
    /\ ~bus.ad_manager => outcome = OK
    /\ bus' = [bus EXCEPT !.advertised = (bus.ad_manager /\ outcome = OK),
                          !.bluez_registered = (variant = BLE_SERVICE /\ outcome = OK)]
    /\ pc' = IF outcome = OK THEN "running" ELSE "cleanup"
    /\ Remember(Op("register_advertisement", AdvertisementPathOf(variant), outcome))
    /\ UNCHANGED <<variant, clients, calls, setupIdx, managed, charPaths, descPaths, value,
                   notifying, target_ssid, target_psk, current_status, scanned_ssids_json,
                   idleQ, timers, scanReads>>
    /\ Observe

\* the event loop ends: CancelledError, KeyboardInterrupt or another exception
Interrupt ==
    /\ pc = "running"
    /\ pc' = "cleanup"
    /\ Remember(Op("interrupt", "", OK))
    /\ UNCHANGED <<variant, clients, bus, calls, setupIdx, managed, charPaths, descPaths, value,
                   notifying, target_ssid, target_psk, current_status, scanned_ssids_json,
                   idleQ, timers, scanReads>>
    /\ Observe

\* the guard of the advertisement's unregistration in the finally block
UnregistersAdvertisement ==
    IF variant = BLE_SERVICE THEN bus.bluez_registered
    ELSE bus.ad_manager /\ InList(AdvertisementPathOf(variant), bus.exported)

\* the guard of the application's unregistration in the finally block
UnregistersApplication == IF variant = BLE_SERVICE THEN bus.bluez_registered ELSE TRUE

UnregisterAdvertisement ==
    /\ pc = "cleanup"
    /\ bus' = [bus EXCEPT !.advertised = IF UnregistersAdvertisement THEN FALSE ELSE @]
    /\ pc' = "unregister"
    /\ Remember([Op("unregister_advertisement", AdvertisementPathOf(variant),
                    IF UnregistersAdvertisement /\ ~bus.advertised THEN ERR_DOES_NOT_EXIST
                    ELSE OK) EXCEPT
                    !.bool = UnregistersAdvertisement])
    /\ UNCHANGED <<variant, clients, calls, setupIdx, managed, charPaths, descPaths, value,
                   notifying, target_ssid, target_psk, current_status, scanned_ssids_json,
                   idleQ, timers, scanReads>>
    /\ Observe

UnregisterApplication ==
    /\ pc = "unregister"
    /\ bus' = [bus EXCEPT !.registered = IF UnregistersApplication THEN FALSE ELSE @,
                          !.bluez_registered = FALSE]
    /\ pc' = "unexport"
    /\ Remember([Op("unregister_application", AppPathOf(variant),
                    IF UnregistersApplication /\ ~bus.registered THEN ERR_DOES_NOT_EXIST
                    ELSE OK) EXCEPT
                    !.bool = UnregistersApplication])
    /\ UNCHANGED <<variant, clients, calls, setupIdx, managed, charPaths, descPaths, value,
                   notifying, target_ssid, target_psk, current_status, scanned_ssids_json,
                   idleQ, timers, scanReads>>
    /\ Observe

\* for path in reversed(...): bus.unexport(path); the exit of the innermost 'with' block
NextUnexported(exported) == Len(exported)

\* faulty variant: an unexport that raises ends the teardown
UnexportObject_aborting(outcome) ==
    /\ pc = "unexport"
    /\ bus.exported # <<>>
    /\ bus' = IF outcome = OK THEN [bus EXCEPT !.exported = RemoveAt(@, NextUnexported(@))]
              ELSE bus
    /\ pc' = IF outcome = OK THEN pc ELSE "done"
    /\ Remember(Op("unexport", bus.exported[NextUnexported(bus.exported)], outcome))
    /\ UNCHANGED <<variant, clients, calls, setupIdx, managed, charPaths, descPaths, value,
                   notifying, target_ssid, target_psk, current_status, scanned_ssids_json,
                   idleQ, timers, scanReads>>
    /\ Observe

\* one turn of the unexport loop: bus.unexport(path) returns or raises, and the
\* exception is printed; 'exported' keeps the paths the loop has still to visit
UnexportObject(outcome) ==
    /\ pc = "unexport"
    /\ bus.exported # <<>>
    /\ bus' = [bus EXCEPT !.exported = RemoveAt(@, NextUnexported(@)),
                          !.leftover = IF outcome = OK THEN @
                                       ELSE Append(@, bus.exported[NextUnexported(bus.exported)])]
    /\ Remember(Op("unexport", bus.exported[NextUnexported(bus.exported)], outcome))
    /\ UNCHANGED <<variant, clients, calls, pc, setupIdx, managed, charPaths, descPaths, value,
                   notifying, target_ssid, target_psk, current_status, scanned_ssids_json,
                   idleQ, timers, scanReads>>
    /\ Observe

\* bus.disconnect() / the end of main()
Disconnect ==
    /\ pc = "unexport"
    /\ bus.exported = <<>>
    /\ pc' = "done"
    /\ Remember(Op("disconnect", "", OK))
    /\ UNCHANGED <<variant, clients, bus, calls, setupIdx, managed, charPaths, descPaths, value,
                   notifying, target_ssid, target_psk, current_status, scanned_ssids_json,
                   idleQ, timers, scanReads>>
    /\ Observe

InitLife ==
    /\ \E v \in Variants : InitObjects(v)
    /\ pc = "setup"
    /\ setupIdx = 0
    /\ managed = <<>>
    /\ session = SessionStart(FALSE)
    /\ \E ad_manager \in BOOLEAN :
          /\ ~ad_manager => variant = BLE_SVC
          /\ bus = BusStart(ad_manager)
    /\ calls = <<>>
    /\ clients = 1

NextLife ==
    \/ AddCharacteristicPath
    \/ AddDescriptorPath
    \/ AddObject
    \/ ExportObject
    \/ \E outcome \in CallOutcomes : CallRegisterApplication(outcome)
    \/ ExportAdvertisement
    \/ \E outcome \in CallOutcomes : RegisterAdvertisement(outcome)
    \/ Interrupt
    \/ UnregisterAdvertisement
    \/ UnregisterApplication
    \/ \E outcome \in CallOutcomes : UnexportObject(outcome)
    \/ Disconnect

SpecLife == InitLife /\ [][NextLife]_vars

\* the finally block is straight-line code: once entered, each of its steps is taken
SpecLifeFair ==
    /\ SpecLife
    /\ WF_vars(UnregisterAdvertisement)
    /\ WF_vars(UnregisterApplication)
    /\ WF_vars(\E outcome \in CallOutcomes : UnexportObject(outcome))
    /\ WF_vars(Disconnect)

-----------------------------------------------------------------------------
(* ble_service.py: the session above with a client that also reads the status *)
(* and SSID-list characteristics.  A method call is dispatched by the main    *)
(* loop between two sources, so a read runs between handle_command or a       *)
(* timeout callback and the send_notification the callback has scheduled.     *)

NextReaders ==
    \/ NextSession
    \/ \E c \in {py_STATUS_CHAR_PATH, py_SSID_CHAR_PATH} : ReadValue(c, 0)

SpecReaders == InitSession /\ [][NextReaders]_vars

-----------------------------------------------------------------------------
(* ble_svc.py: provisioning as above, with writes to the other objects too    *)

NextWins ==
    \/ NextCred
    \/ \E o \in PathsOf(variant) \ {ServiceOf(variant), svc_CHAR_SSID_PATH, svc_CHAR_PSK_PATH},
          data \in {P_A, P_invalid} : WriteValue(o, data, 0)

SpecWins == InitCred /\ [][NextWins]_vars

-----------------------------------------------------------------------------
(* ble_svc.py, plan_z.py: two clients read the scan characteristic, so that   *)
(* two ReadValue requests await their scans at the same time and finish in    *)
(* either order                                                               *)

ScanClients == 2

InitScan ==
    /\ \E v \in {BLE_SVC, PLAN_Z} : InitObjects(v)
    /\ pc = "setup"
    /\ setupIdx = 0
    /\ managed = <<>>
    /\ session = SessionStart(FALSE)
    /\ bus = BusStart(TRUE)
    /\ calls = <<>>
    /\ clients = ScanClients

NextScan ==
    \/ AddCharacteristicPath
    \/ AddDescriptorPath
    \/ AddObject
    \/ RegisterApplication
    \/ \E c \in CharsOf(variant) : \E offset \in OffsetsFor(c) : ScanReadStart(c, offset)
    \/ \E i \in 1..Len(scanReads), out \in ScanOutcomes : ScanReadFinish(i, out)
    \/ \E o \in PathsOf(variant) \ {ServiceOf(variant)} :
          \E offset \in OffsetsFor(o) : ReadValue(o, offset)

SpecScan == InitScan /\ [][NextScan]_vars

-----------------------------------------------------------------------------
(* Properties *)

IsCharacteristic(p) == p \in DOMAIN ObjectTable /\ Info(p).kind = "characteristic"

PermissionErrors == {ERR_NOT_PERMITTED, ERR_WRITE_NOT_PERMITTED}

HasFlag(p, flag) == InList(flag, Info(p).flags)

\* C1: a ReadValue on a characteristic succeeds iff 'read' is in its flags, and
\* otherwise fails with NotPermitted (so reads of the command, Set-SSID and Set-PSK
\* characteristics always fail)
C1_ReadSucceedsIffReadFlag ==
    (lastOp.op = "ReadValue" /\ IsCharacteristic(lastOp.obj)) =>
        IF HasFlag(lastOp.obj, "read") THEN lastOp.res = OK
        ELSE lastOp.res = ERR_NOT_PERMITTED

\* C2 as stated: a WriteValue on a characteristic succeeds iff 'write' or
\* 'write-without-response' is in its flags, and fails with a permission error otherwise
C2_WriteSucceedsIffWriteFlag ==
    (lastOp.op = "WriteValue" /\ IsCharacteristic(lastOp.obj)) =>
        IF HasFlag(lastOp.obj, "write") \/ HasFlag(lastOp.obj, "write-without-response")
        THEN lastOp.res = OK
        ELSE lastOp.res \in PermissionErrors

\* C2 amended: a WriteValue on a characteristic fails with a permission error iff
\* neither 'write' nor 'write-without-response' is in its flags (so it succeeds only
\* with one of them, and a write on the status characteristic always fails); with
\* one of the flags it succeeds or is rejected for its payload
C2_WritePermission ==
    (lastOp.op = "WriteValue" /\ IsCharacteristic(lastOp.obj)) =>
        /\ lastOp.res \in PermissionErrors <=>
              ~(HasFlag(lastOp.obj, "write") \/ HasFlag(lastOp.obj, "write-without-response"))
        /\ lastOp.res \in PermissionErrors
              \cup {OK, ERR_INVALID_VALUE_LENGTH, ERR_FAILED}
        /\ lastOp.obj = py_STATUS_CHAR_PATH => lastOp.res # OK

C2_Witness ==
    /\ lastOp.op = "WriteValue"
    /\ lastOp.obj = py_STATUS_CHAR_PATH
    /\ lastOp.res = ERR_WRITE_NOT_PERMITTED

\* C3: a characteristic is notifying only if 'notify' is in its flags, and no
\* characteristic is notifying before the first GATT operation is served
C3_NotifyingOnlyWithFlag ==
    /\ \A c \in CharsOf(variant) : Notifying(c) => HasFlag(c, "notify")
    /\ (pc = "setup" \/ lastOp.op = "RegisterApplication") =>
          \A c \in CharsOf(variant) : ~Notifying(c)

C3_Witness ==
    /\ lastOp.op \in {"StartNotify", "StopNotify", "ReadValue", "WriteValue"}
    /\ \E c \in CharsOf(variant) : Notifying(c)

\* C4: two StartNotify calls in a row on a notify-capable characteristic: the second
\* is not an error and emits nothing, notifying is true after it, and when the
\* characteristic was not notifying before the pair exactly one event, Notifying
\* changed to true, was emitted
C4_StartNotifyIdempotent ==
    (prevOp.op = "StartNotify" /\ lastOp.op = "StartNotify" /\ prevOp.obj = lastOp.obj
        /\ HasFlag(lastOp.obj, "notify")) =>
        /\ prevOp.res = OK
        /\ lastOp.res = OK
        /\ lastOp.emitted = <<>>
        /\ Notifying(lastOp.obj)
        /\ ~prevOp.pre =>
              prevOp.emitted \o lastOp.emitted = <<Signal(lastOp.obj, "Notifying", TRUE, <<>>)>>

C4_Witness ==
    /\ prevOp.op = "StartNotify"
    /\ lastOp.op = "StartNotify"
    /\ HasFlag(lastOp.obj, "notify")
    /\ ~prevOp.pre

\* C5: a StartNotify on a characteristic without 'notify' in its flags fails with
\* NotSupported and changes neither the notifying state nor the value of any object
C5_StartNotifyNotSupported ==
    [][(lastOp'.op = "StartNotify" /\ ~HasFlag(lastOp'.obj, "notify")) =>
          /\ lastOp'.res = ERR_NOT_SUPPORTED
          /\ notifying' = notifying
          /\ value' = value]_vars

C5_Witness ==
    /\ lastOp.op = "StartNotify"
    /\ ~HasFlag(lastOp.obj, "notify")
    /\ lastOp.res = ERR_NOT_SUPPORTED

\* C6: a StopNotify fails with NotSupported when 'notify' is not in the flags; on a
\* notify-capable characteristic that is not notifying it succeeds and emits nothing;
\* otherwise it sets notifying to false and emits exactly one Notifying-changed event
C6_StopNotifySymmetric ==
    lastOp.op = "StopNotify" =>
        IF ~HasFlag(lastOp.obj, "notify") THEN lastOp.res = ERR_NOT_SUPPORTED
        ELSE /\ lastOp.res = OK
             /\ ~Notifying(lastOp.obj)
             /\ lastOp.emitted = IF lastOp.pre
                                 THEN <<Signal(lastOp.obj, "Notifying", FALSE, <<>>)>>
                                 ELSE <<>>

\* C7: update_value(v) returns true iff v differs from the characteristic's value,
\* stores v in that case and leaves every value unchanged otherwise; of two calls
\* in a row with the same v the second returns false, and the first returned true
\* iff v differed from the value before it
C7_UpdateValue ==
    /\ [][lastOp'.op = "update_value" =>
            /\ lastOp'.bool <=> (lastOp'.arg # value[lastOp'.obj])
            /\ value' = IF lastOp'.arg # value[lastOp'.obj]
                        THEN [value EXCEPT ![lastOp'.obj] = lastOp'.arg]
                        ELSE value]_vars
    /\ []((prevOp.op = "update_value" /\ lastOp.op = "update_value"
              /\ prevOp.obj = lastOp.obj /\ prevOp.arg = lastOp.arg) =>
            (~lastOp.bool /\ value[lastOp.obj] = lastOp.arg))

C7_Witness ==
    /\ prevOp.op = "update_value"
    /\ lastOp.op = "update_value"
    /\ prevOp.arg = lastOp.arg
    /\ prevOp.bool
    /\ ~lastOp.bool

\* C8: a send_notification on a characteristic that is not notifying returns false
\* and emits no PropertiesChanged signal
C8_SendNotificationNotNotifying ==
    (lastOp.op = "send_notification" /\ ~lastOp.pre) =>
        (~lastOp.bool /\ lastOp.emitted = <<>>)

C8_Witness ==
    /\ lastOp.op = "send_notification"
    /\ ~lastOp.pre
    /\ value[lastOp.obj] # Info(lastOp.obj).init

\* the property map of an object, from the object itself
PropertyMapOf(p) ==
    CASE variant = BLE_SVC -> svc_declared_properties(p)
      [] variant = BLE_SERVICE -> py_get_properties(p).props
      [] variant = PLAN_Z -> z_get_properties_for_om(p)

\* C9: GetManagedObjects returns one entry for every path added to the object
\* manager and no other, each mapping the interface name of the object's kind to
\* the object's property map
C9_GetManagedObjectsComplete ==
    lastOp.op = "GetManagedObjects" =>
        LET added == AddedUpTo(SetupOf(variant), setupIdx)
        IN  /\ lastOp.res = OK
            /\ Len(lastOp.objs) = Len(added)
            /\ \A i \in 1..Len(added) :
                  \E j \in 1..Len(lastOp.objs) :
                     /\ lastOp.objs[j].path = added[i]
                     /\ lastOp.objs[j].iface = IfaceOfKind(Info(added[i]).kind)
                     /\ lastOp.objs[j].props = PropertyMapOf(added[i])

\* the operations that mutate nothing GetManagedObjects reports
NonMutating == {"GetManagedObjects", "ReadValue", "ReadValueStart", "send_notification", "tick"}

\* C10: GetManagedObjects is deterministic: two calls in a row return the same
\* result, and no step of a non-mutating operation changes what a call returns
C10_GetManagedObjectsDeterministic ==
    /\ [](( prevOp.op = "GetManagedObjects" /\ lastOp.op = "GetManagedObjects") =>
            (lastOp.res = prevOp.res /\ lastOp.objs = prevOp.objs))
    /\ [][lastOp'.op \in NonMutating =>
            GetManagedObjectsOutcome(managed)' = GetManagedObjectsOutcome(managed)]_vars

C10_Witness ==
    /\ prevOp.op = "GetManagedObjects"
    /\ lastOp.op = "GetManagedObjects"
    /\ lastOp.res = OK
    /\ lastOp.objs # <<>>

\* C11: a WriteValue of b at offset 0 to an object that permits write leaves the
\* object such that a ReadValue at offset 0, when the object permits read, returns
\* exactly b
C11_WriteThenReadRoundTrip ==
    [][\A o \in PathsOf(variant) \ {ServiceOf(variant)} :
          (/\ lastOp'.op = "WriteValue" /\ lastOp'.obj = o
           /\ CanWrite(Flags(o)) /\ CanRead(Flags(o))
           /\ WriteValue(o, lastOp'.arg, 0)) =>
               ReadValueOutcome(o, 0)' = ReadResult(OK, lastOp'.arg)]_vars

IsPrefix(a, b) == Len(a) <= Len(b) /\ a = SubSeq(b, 1, Len(a))

\* every source of the main loop has been dispatched
LoopIdle == idleQ = <<>> /\ timers = <<>>

\* C12: from status "Idle" and SSID list "[]", a session whose only command is "SCAN"
\* takes the status characteristic through "Idle", "Scanning...", "Scan Complete" and
\* nothing else, and the SSID characteristic from "[]" to the array the scan produced
C12_ScanScenarioValues ==
    session.cmds = <<T_SCAN>> =>
        /\ IsPrefix(session.status, <<B_Idle, B_Scanning, B_ScanComplete>>)
        /\ IsPrefix(session.ssids, <<B_EmptyJsonList, B_SimulatedSsids>>)
        /\ LoopIdle => /\ session.status = <<B_Idle, B_Scanning, B_ScanComplete>>
                       /\ session.ssids = <<B_EmptyJsonList, B_SimulatedSsids>>
                       /\ value[py_STATUS_CHAR_PATH] = B_ScanComplete
                       /\ value[py_SSID_CHAR_PATH] = B_SimulatedSsids

C12_Witness ==
    /\ session.cmds = <<T_SCAN>>
    /\ LoopIdle
    /\ session.status = <<B_Idle, B_Scanning, B_ScanComplete>>
    /\ session.ssids = <<B_EmptyJsonList, B_SimulatedSsids>>

NotesOf(c) == SelectSeq(session.notes, LAMBDA e : e.obj = c)

\* C13: with both the status and the SSID characteristic notifying throughout, a
\* session whose only command is "SCAN" emits exactly two Value notifications on the
\* status characteristic, one per status value, and exactly one on the SSID characteristic
C13_ScanScenarioNotifications ==
    (session.cmds = <<T_SCAN>> /\ session.sub /\ LoopIdle) =>
        /\ [i \in 1..Len(NotesOf(py_STATUS_CHAR_PATH)) |-> NotesOf(py_STATUS_CHAR_PATH)[i].val]
              = <<B_Scanning, B_ScanComplete>>
        /\ [i \in 1..Len(NotesOf(py_SSID_CHAR_PATH)) |-> NotesOf(py_SSID_CHAR_PATH)[i].val]
              = <<B_SimulatedSsids>>

IsConnectCommand(command) == StartsWith(Upper(command), T_CONNECT)

\* C14: once a "CONNECT" command is handled, the connect action it started was given
\* exactly the stored pair (target SSID, target PSK); and a session whose only command
\* is "CONNECT" ends with the status "Connected"
C14_ConnectUsesStoredPair ==
    /\ (lastOp.op = "handle_command" /\ IsConnectCommand(lastOp.arg)) =>
           \E i \in 1..Len(timers) :
               /\ timers[i].cb = "update_connection_result"
               /\ Len(timers[i].arg) = 2
               /\ timers[i].arg[1] = target_ssid
               /\ timers[i].arg[2] = target_psk
    /\ (session.cmds = <<T_CONNECT>> /\ LoopIdle) => value[py_STATUS_CHAR_PATH] = B_Connected

IsSsidWrite(op) == op.op = "WriteValue" /\ op.obj = svc_CHAR_SSID_PATH
IsPskWrite(op) == op.op = "WriteValue" /\ op.obj = svc_CHAR_PSK_PATH

\* C15: a Set-SSID write of more than 32 bytes is rejected with an error and leaves
\* the stored target SSID and target PSK as they were
C15_LongSsidRejected ==
    [][(IsSsidWrite(lastOp') /\ Len(lastOp'.arg) > MAX_SSID_BYTES) =>
           /\ lastOp'.res # OK
           /\ target_ssid' = target_ssid
           /\ target_psk' = target_psk]_vars

C15_Witness ==
    /\ IsSsidWrite(lastOp) /\ Len(lastOp.arg) = 40
    /\ lastOp.res # OK
    /\ target_ssid = Rep(97, 7)
    /\ target_psk # None

\* the code points of 0-9, A-F, a-f
HexCodes == (48..57) \cup (65..70) \cup (97..102)

PskAcceptable(psk) ==
    \/ psk = <<>>
    \/ Len(psk) >= 8 /\ Len(psk) <= 63
    \/ Len(psk) = 64 /\ \A i \in 1..64 : psk[i] \in HexCodes

\* C16: a Set-PSK write of a decodable PSK is accepted, and the PSK stored, iff the
\* PSK is empty, 8 to 63 characters long or exactly 64 hexadecimal characters; any
\* other PSK is rejected and leaves the stored target PSK unchanged
C16_PskAcceptedIffWellFormed ==
    [][(IsPskWrite(lastOp') /\ Utf8Decode(lastOp'.arg).ok) =>
           IF PskAcceptable(Utf8Decode(lastOp'.arg).text)
           THEN lastOp'.res = OK /\ target_psk' = Utf8Decode(lastOp'.arg).text
           ELSE lastOp'.res # OK /\ target_psk' = target_psk]_vars

C16_Witness ==
    /\ IsPskWrite(lastOp)
    /\ lastOp.arg = Rep(112, 6) \o P_eacute
    /\ lastOp.res # OK
    /\ target_psk = Rep(102, 64)

ViolatesLengthBounds(op) ==
    \/ IsSsidWrite(op) /\ Len(op.arg) > MAX_SSID_BYTES
    \/ IsPskWrite(op) /\ Utf8Decode(op.arg).ok /\ ~PskAcceptable(Utf8Decode(op.arg).text)

\* C17: a Set-SSID or Set-PSK write that violates the length bounds fails with
\* org.bluez.Error.InvalidValueLength, not with the generic org.bluez.Error.Failed
C17_LengthErrorKind ==
    ViolatesLengthBounds(lastOp) => lastOp.res = ERR_INVALID_VALUE_LENGTH

UnknownCommandStatus(command) == Utf8Encode(T_UnknownPrefix \o command \o T_Quote)

\* what handling an unknown command does: the status becomes the error string, no
\* timeout source (scan or connect) is started, the handler returns normally
ReportsUnknown(command) ==
    /\ value'[py_STATUS_CHAR_PATH] = UnknownCommandStatus(command)
    /\ current_status' = UnknownCommandStatus(command)
    /\ timers' = timers
    /\ lastOp'.res = OK

\* C18 as stated: handling any command text that is neither "SCAN" nor begins with
\* "CONNECT" sets the status to "Error: Unknown command '<command>'", starts no scan
\* or connect action and raises no fault
C18_UnknownCommandLiteral ==
    [][(/\ lastOp'.op = "handle_command"
        /\ lastOp'.arg # T_SCAN
        /\ ~StartsWith(lastOp'.arg, T_CONNECT)) => ReportsUnknown(lastOp'.arg)]_vars

\* C18, amended: handling any command text that, converted to upper case, is neither
\* "SCAN" nor begins with "CONNECT" sets the status to "Error: Unknown command
\* '<command>'", starts no scan or connect action and raises no fault; and a write to
\* the command characteristic never fails
C18_UnknownCommand ==
    [][/\ (/\ lastOp'.op = "handle_command"
            /\ Upper(lastOp'.arg) # T_SCAN
            /\ ~StartsWith(Upper(lastOp'.arg), T_CONNECT)) => ReportsUnknown(lastOp'.arg)
       /\ IsCommandWrite(lastOp') => lastOp'.res = OK]_vars

C18_Witness ==
    /\ lastOp.op = "handle_command"
    /\ lastOp.arg = P_hi
    /\ value[py_STATUS_CHAR_PATH] = UnknownCommandStatus(P_hi)
    /\ timers = <<>>

\* "Error"
T_ErrorWord == <<69, 114, 114, 111, 114>>

IsErrorStatus(bytes) == StartsWith(Utf8Decode(bytes).text, T_ErrorWord)

\* C19: a write of a payload that is not valid UTF-8 to the command characteristic
\* returns normally and leaves the status characteristic holding an error string
C19_BadUtf8Reported ==
    (IsCommandWrite(lastOp) /\ ~Utf8Decode(lastOp.arg).ok) =>
        /\ lastOp.res = OK
        /\ IsErrorStatus(value[py_STATUS_CHAR_PATH])

\* a WriteValue outcome without the stored PSK
WithoutPsk(w) == [res |-> w.res, val |-> w.val, ssid |-> w.ssid, idle |-> w.idle]

svc_Served == PathsOf(BLE_SVC) \ {svc_SERVICE_PATH}

\* the writes whose outcome is compared: an accepted, a rejected and an undecodable
\* payload for each credential, the payloads of the other objects
WritePayloads(o) ==
    IF o = svc_CHAR_SSID_PATH THEN {<<>>, Rep(97, 7), Rep(97, MAX_SSID_BYTES + 1), P_invalid}
    ELSE IF o = svc_CHAR_PSK_PATH
    THEN {<<>>, Rep(112, PSK_MIN_LEN - 1), Rep(112, PSK_MIN_LEN), P_invalid}
    ELSE PayloadsFor(o)

\* everything a client of ble_svc.py can be answered in the current state, and
\* everything its requests leave in the state besides the stored PSK: the result of
\* every ReadValue, of GetManagedObjects, of every StartNotify / StopNotify with the
\* signals they emit, and the outcome of every WriteValue
ClientView ==
    [reads |-> [o \in {q \in svc_Served : Cls(q) \notin ScanClasses} |->
                  [off \in Offsets |-> ReadValueOutcome(o, off)]],
     objects |-> GetManagedObjectsOutcome(managed),
     notify |-> [c \in CharsOf(BLE_SVC) |-> <<StartNotifyOutcome(c), StopNotifyOutcome(c)>>],
     writes |-> [o \in svc_Served \ {svc_CHAR_PSK_PATH} |->
                   [data \in WritePayloads(o) |->
                      [off \in OffsetsFor(o) |-> WithoutPsk(WriteValueOutcome(o, data, off))]]],
     psk_writes |-> [data \in WritePayloads(svc_CHAR_PSK_PATH) |->
                       WithoutPsk(WriteValueOutcome(svc_CHAR_PSK_PATH, data, 0))]]

\* C20: the stored PSK is never echoed back.  A Set-PSK write, whatever PSK it
\* carries and whatever PSK was stored, changes nothing but the stored PSK and leaves
\* every answer to a client (ReadValue, GetManagedObjects, notifications, the outcome
\* of every other write) as it was, so two runs that differ only in the PSKs written
\* answer identically; and a ReadValue of the Set-PSK characteristic always fails
C20_PskNeverEchoed ==
    /\ [][(variant = BLE_SVC /\ IsPskWrite(lastOp')) =>
              /\ ClientView' = ClientView
              /\ UNCHANGED <<variant, clients, pc, setupIdx, managed, charPaths, descPaths, value,
                             notifying, target_ssid, current_status, scanned_ssids_json,
                             idleQ, timers, scanReads>>]_vars
    /\ [](variant = BLE_SVC =>
              /\ \A off \in Offsets : ReadValueOutcome(svc_CHAR_PSK_PATH, off).res # OK
              /\ (lastOp.op = "ReadValue" /\ lastOp.obj = svc_CHAR_PSK_PATH) => lastOp.res # OK)

C20_Witness ==
    /\ IsPskWrite(lastOp)
    /\ lastOp.res = OK
    /\ target_psk = Rep(112, PSK_MAX_LEN)
    /\ target_ssid = Rep(97, 7)


\* what a failing Set reports: the property is read-only
ReadOnlyErrors == {ERR_PROPERTY_READ_ONLY, py_ERR_PROPERTY_READ_ONLY}

\* C21: Set always fails with a read-only error, for every object, interface name,
\* property name and value, and changes nothing: no property value and no other state
C21_SetAlwaysReadOnly ==
    [][lastOp'.op = "Set" =>
          /\ lastOp'.res \in ReadOnlyErrors
          /\ \A o \in PathsOf(variant), i \in IfaceNames :
                GetAllOutcome(o, i)' = GetAllOutcome(o, i)
          /\ UNCHANGED <<variant, clients, bus, pc, setupIdx, managed, charPaths, descPaths, value,
                         notifying, target_ssid, target_psk, current_status,
                         scanned_ssids_json, idleQ, timers, scanReads>>]_vars

C21_Witness ==
    /\ variant = PLAN_Z
    /\ lastOp.op = "Set"
    /\ lastOp.obj = z_SERVICE_PATH
    /\ lastOp.iface = GATT_SERVICE_IFACE
    /\ lastOp.name = "UUID"
    /\ lastOp.res = ERR_PROPERTY_READ_ONLY

\* the property names an object declares for its interface
DeclaredNames(o) ==
    IF Info(o).kind = "service" THEN {"UUID", "Primary", "Characteristics"}
    ELSE IF variant = BLE_SERVICE THEN {"UUID", "Service", "Value", "Notifying", "Flags"}
    ELSE IF Info(o).kind = "characteristic" THEN {"UUID", "Flags", "Service", "Descriptors"}
    ELSE {"UUID", "Flags", "Characteristic"}

NotFoundErrors == {ERR_INVALID_ARGS, py_ERR_INVALID_ARGS}

\* C22: Get on the object's interface returns the current value of a declared
\* property, the value GetAll reports under that name, and fails with a not-found
\* error for a name the object does not declare
C22_GetReturnsDeclaredProperty ==
    (lastOp.op = "Get" /\ lastOp.iface = IfaceOfKind(Info(lastOp.obj).kind)) =>
        IF lastOp.name \in DeclaredNames(lastOp.obj)
        THEN /\ lastOp.res = OK
             /\ GetAllOutcome(lastOp.obj, lastOp.iface).res = OK
             /\ lastOp.name \in DOMAIN GetAllOutcome(lastOp.obj, lastOp.iface).props[1]
             /\ lastOp.props = <<GetAllOutcome(lastOp.obj, lastOp.iface).props[1][lastOp.name]>>
        ELSE lastOp.res \in NotFoundErrors


ERR_INVALID_OFFSET == "org.bluez.Error.InvalidOffset"

\* the objects whose ReadValue serves the stored _value / whose WriteValue stores into it
StoredValueReaders == {"ReadWriteCharacteristicImpl", "UserDescriptionDescriptorImpl"}
StoredValueWriters == {"ReadWriteCharacteristicImpl", "UserDescriptionDescriptorImpl"}

\* C23: ReadValue at offset o of a readable characteristic or descriptor returns
\* value[o:] when o <= len(value) and fails with the invalid-offset error when
\* o > len(value)
C23_ReadValueAtOffset ==
    [][\A o \in PathsOf(BLE_SVC), offset \in Offsets :
          (/\ variant = BLE_SVC
           /\ Cls(o) \in StoredValueReaders
           /\ CanRead(Flags(o))
           /\ ReadValue(o, offset)) =>
              IF offset <= Len(value[o])
              THEN /\ lastOp'.res = OK
                   /\ lastOp'.ret = [i \in 1..(Len(value[o]) - offset) |-> value[o][i + offset]]
              ELSE lastOp'.res = ERR_INVALID_OFFSET]_vars

\* C24: WriteValue(offset, data) on a writable characteristic or descriptor leaves
\* a value of length offset + len(data): the old value's first offset bytes (zero
\* where the old value was shorter), then data
C24_WriteValueSplices ==
    [][\A o \in PathsOf(BLE_SVC), offset \in Offsets :
          (/\ variant = BLE_SVC
           /\ Cls(o) \in StoredValueWriters
           /\ CanWrite(Flags(o))
           /\ lastOp'.op = "WriteValue"
           /\ WriteValue(o, lastOp'.arg, offset)) =>
              /\ lastOp'.res = OK
              /\ Len(value'[o]) = offset + Len(lastOp'.arg)
              /\ \A i \in 1..offset :
                    value'[o][i] = IF i <= Len(value[o]) THEN value[o][i] ELSE 0
              /\ \A i \in 1..Len(lastOp'.arg) : value'[o][offset + i] = lastOp'.arg[i]]_vars


\* the paths passed to an owner's add_characteristic_path / add_descriptor_path, in call order
AddedTo(owner) ==
    LET mine == SelectSeq(calls, LAMBDA c : c.obj = owner /\ c.op # "add_gatt_object")
    IN  [i \in 1..Len(mine) |-> mine[i].arg]

PathListOf(owner) == IF owner = ServiceOf(variant) THEN charPaths ELSE descPaths[owner]

FirstIndex(x, s) == CHOOSE i \in 1..Len(s) : s[i] = x /\ \A j \in 1..(i - 1) : s[j] # x

\* C25: after any sequence of add_characteristic_path / add_descriptor_path calls the
\* owner's path list has no duplicates and lists the distinct paths added, in the
\* order of their first addition
C25_AddPathIdempotent ==
    \A owner \in {ServiceOf(variant)} \cup CharsOf(variant) :
        LET list == PathListOf(owner)
            added == AddedTo(owner)
        IN  /\ \A i, j \in 1..Len(list) : i # j => list[i] # list[j]
            /\ Range(list) = Range(added)
            /\ \A i, j \in 1..Len(list) :
                  i < j => FirstIndex(list[i], added) < FirstIndex(list[j], added)

C25_Witness ==
    /\ variant = BLE_SVC
    /\ AddedTo(svc_SERVICE_PATH) = <<svc_CHAR_SCAN_PATH, svc_CHAR_RW_PATH, svc_CHAR_SCAN_PATH>>
    /\ charPaths = <<svc_CHAR_SCAN_PATH, svc_CHAR_RW_PATH>>

DuplicatePathErrors == {"DuplicatePathError"}

HasPath(m, path) == \E i \in 1..Len(m) : m[i].path = path

\* C26 as claimed: adding an object under a path already in the object manager fails
\* with a duplicate-path error and leaves the entry of that path as it was
C26_DuplicatePathRejected ==
    [][(lastOp'.op = "add_gatt_object" /\ HasPath(managed, lastOp'.obj)) =>
          /\ lastOp'.res \in DuplicatePathErrors
          /\ managed' = managed]_vars

\* C26: adding an object under a path already in the object manager never fails:
\* the entry of that path becomes the new object, in the same place of the
\* enumeration order, and every other entry stays as it was
C26_DuplicatePathOverwritten ==
    [][(lastOp'.op = "add_gatt_object" /\ HasPath(managed, lastOp'.obj)) =>
          /\ lastOp'.res = OK
          /\ Len(managed') = Len(managed)
          /\ \A i \in 1..Len(managed) :
                IF managed[i].path = lastOp'.obj
                THEN /\ managed'[i].path = lastOp'.obj
                     /\ managed'[i].inst = calls'[Len(calls')].arg
                ELSE managed'[i] = managed[i]]_vars

C26_Witness ==
    /\ variant = BLE_SVC
    /\ lastOp.op = "add_gatt_object"
    /\ calls = <<Call("add_gatt_object", svc_CHAR_RW_PATH, svc_CHAR_RW_PATH),
                 Call("add_gatt_object", svc_SERVICE_PATH, svc_SERVICE_PATH),
                 Call("add_gatt_object", svc_CHAR_RW_PATH, svc_CHAR_SCAN_PATH)>>
    /\ Len(managed) = 2
    /\ managed[1].path = svc_CHAR_RW_PATH
    /\ managed[1].inst = svc_CHAR_SCAN_PATH


-----------------------------------------------------------------------------
\* the paths the service and the characteristics list
ListedPaths ==
    {charPaths[i] : i \in 1..Len(charPaths)}
        \cup UNION {{descPaths[c][i] : i \in 1..Len(descPaths[c])} : c \in DOMAIN descPaths}

Exported(path) == InList(path, bus.exported)

\* C27: on every shutdown path the GATT application is unregistered from BlueZ
\* before any object is unexported from the bus, and the objects are unexported
\* in the reverse of the order in which they were exported: a step that
\* unexports an object is taken with the application not registered and
\* removes the object exported last.
C27_UnregisterBeforeUnexport ==
    [][Len(bus'.exported) < Len(bus.exported) =>
          /\ ~bus.registered
          /\ bus'.exported = SliceTo(bus.exported, Len(bus.exported) - 1)]_vars

\* C28: at the moment the application is registered with BlueZ the object
\* manager holds every GATT object, and every characteristic path listed by
\* the service and every descriptor path listed by a characteristic is
\* registered in the object manager and exported on the bus.
C28_RegisteredComplete ==
    (lastOp.op = "call_register_application" /\ lastOp.res = OK) =>
        /\ \A o \in PathsOf(variant) : HasPath(managed, o)
        /\ PathsOf(variant) \ {ServiceOf(variant)} \subseteq ListedPaths
        /\ \A path \in ListedPaths : HasPath(managed, path) /\ Exported(path)


-----------------------------------------------------------------------------
\* the commands of the decodable writes, in write order
RECURSIVE CommandsOf(_)
CommandsOf(cmds) ==
    IF cmds = <<>> THEN <<>>
    ELSE IF Utf8Decode(Head(cmds)).ok
    THEN <<Strip(Utf8Decode(Head(cmds)).text)>> \o CommandsOf(Tail(cmds))
    ELSE CommandsOf(Tail(cmds))

\* the commands of the pending handle_command sources, oldest first
PendingCommands ==
    LET pending == SelectSeq(idleQ, LAMBDA src : src.cb = "handle_command")
    IN  [i \in 1..Len(pending) |-> pending[i].arg]

\* C29: the commands written to the command characteristic are handled in the
\* order in which their writes were received: the commands handled so far,
\* followed by the commands still waiting for the main loop, are the commands
\* written, in write order.
C29_CommandsHandledInOrder ==
    session.handled \o PendingCommands = CommandsOf(session.cmds)

\* a first command is being handled while a different, later one is waiting
C29_Witness ==
    /\ lastOp.op = "handle_command"
    /\ Len(session.handled) = 1
    /\ PendingCommands # <<>>
    /\ PendingCommands[1] # session.handled[1]
    /\ C29_CommandsHandledInOrder


-----------------------------------------------------------------------------
\* a send_notification of the characteristic is scheduled and has not run
PendingNotification(c) ==
    \E i \in 1..Len(idleQ) : idleQ[i].cb = "send_notification" /\ idleQ[i].obj = c

\* the values the characteristic has held
HeldValues(c) == IF c = py_STATUS_CHAR_PATH THEN session.status ELSE session.ssids

\* C30: a value update and its notification are one step for a concurrent
\* reader: a ReadValue of the status or SSID-list characteristic returns a
\* complete value the characteristic has held, and it returns the newest
\* value only once the step that notifies subscribers of it has run.
C30_ReadsSeeNotifiedValues ==
    (lastOp.op = "ReadValue" /\ lastOp.obj \in {py_STATUS_CHAR_PATH, py_SSID_CHAR_PATH}) =>
        /\ lastOp.res = OK
        /\ InList(lastOp.ret, HeldValues(lastOp.obj))
        /\ lastOp.ret = value[lastOp.obj] => ~PendingNotification(lastOp.obj)


-----------------------------------------------------------------------------
IsScanCommand(command) == Upper(command) = T_SCAN

\* a timeout source that completes a scan or a connect
CompletionPending(cb) == \E i \in 1..Len(timers) : timers[i].cb = cb

\* a scan or connect action has been triggered and has not completed
ActionPending ==
    \/ scanReads # <<>>
    \/ CompletionPending("update_scan_result")
    \/ CompletionPending("update_connection_result")
    \/ \E i \in 1..Len(idleQ) :
          /\ idleQ[i].cb = "handle_command"
          /\ IsScanCommand(idleQ[i].arg) \/ IsConnectCommand(idleQ[i].arg)

\* the action is still pending when the step that triggered it is over
PendingAfterTrigger ==
    /\ lastOp.op = "ReadValueStart" =>
          /\ lastOp.res = PENDING
          /\ \E i \in 1..Len(scanReads) : scanReads[i].obj = lastOp.obj
    /\ (lastOp.op = "WriteValue" /\ lastOp.obj = py_CMD_CHAR_PATH /\ Utf8Decode(lastOp.arg).ok) =>
          /\ lastOp.res = OK
          /\ idleQ # <<>>
          /\ idleQ[Len(idleQ)] =
                Source("handle_command", lastOp.obj, Strip(Utf8Decode(lastOp.arg).text), 0)
    /\ (lastOp.op = "handle_command" /\ IsScanCommand(lastOp.arg)) =>
          /\ timers # <<>>
          /\ timers[Len(timers)].cb = "update_scan_result"
          /\ timers[Len(timers)].left = SCAN_DELAY
    /\ (lastOp.op = "handle_command" /\ ~IsScanCommand(lastOp.arg)
           /\ IsConnectCommand(lastOp.arg)) =>
          /\ timers # <<>>
          /\ timers[Len(timers)].cb = "update_connection_result"
          /\ timers[Len(timers)].left = CONNECT_DELAY

\* reads, writes, StartNotify and StopNotify can be processed in this state
\* (command writes apart, which the bound MaxPending limits)
GattResponsive ==
    /\ \A o \in PathsOf(variant) \ {ServiceOf(variant)} :
          /\ Cls(o) \notin ScanClasses => ENABLED ReadValue(o, 0)
          /\ Cls(o) # "WifiCommandCharacteristic" => ENABLED WriteValue(o, P_A, 0)
    /\ \A c \in CharsOf(variant) : ENABLED StartNotify(c) /\ ENABLED StopNotify(c)

\* C31 as stated: a scan or connect action never blocks the event loop: the
\* GATT handler that triggers it has returned before the action completes (no
\* request is left without its reply while the action is pending), and other
\* GATT operations are still processed while the action is pending.
C31_HandlerReturnsBeforeCompletion ==
    ActionPending => scanReads = <<>> /\ PendingAfterTrigger /\ GattResponsive

\* C31, amended: a scan or connect action never blocks the event loop: the
\* handler that triggers it returns (command write, handle_command) or is
\* suspended with its reply outstanding (scan read) before the action
\* completes, and other GATT operations are still processed while the action
\* is pending.
C31_ActionsNeverBlock ==
    PendingAfterTrigger /\ (ActionPending => GattResponsive)

\* a GATT operation other than the trigger has been processed while a scan read
\* is suspended, or while a simulated scan is pending
C31_Witness ==
    /\ lastOp.op \in {"ReadValue", "WriteValue", "StartNotify", "StopNotify"}
    /\ \/ scanReads # <<>> /\ lastOp.obj # scanReads[1].obj
       \/ CompletionPending("update_scan_result") /\ lastOp.obj # py_CMD_CHAR_PATH


-----------------------------------------------------------------------------
\* an accepted write to the characteristic c
AcceptedWrite(op, c) == op.op = "WriteValue" /\ op.obj = c /\ op.res = OK

\* C32: last write wins for the provisioning credentials: an accepted Set-SSID
\* write makes the stored target SSID its decoded payload and leaves the PSK,
\* an accepted Set-PSK write makes the stored target PSK its decoded payload
\* and leaves the SSID, and every other step (a rejected write, a write to
\* another object, any other operation) leaves both as they were; so after any
\* sequence of writes each stored credential is the payload of the most recent
\* accepted write to its characteristic.
C32_LastWriteWins ==
    [][ /\ AcceptedWrite(lastOp', svc_CHAR_SSID_PATH) =>
              target_ssid' = Utf8Decode(lastOp'.arg).text /\ target_psk' = target_psk
        /\ AcceptedWrite(lastOp', svc_CHAR_PSK_PATH) =>
              target_psk' = Utf8Decode(lastOp'.arg).text /\ target_ssid' = target_ssid
        /\ (~AcceptedWrite(lastOp', svc_CHAR_SSID_PATH)
               /\ ~AcceptedWrite(lastOp', svc_CHAR_PSK_PATH)) =>
              UNCHANGED <<target_ssid, target_psk>> ]_vars

\* a second PSK has been accepted after a first one and an SSID
C32_Witness ==
    /\ AcceptedWrite(lastOp, svc_CHAR_PSK_PATH)
    /\ target_psk = Utf8Decode(lastOp.arg).text
    /\ target_psk = Rep(112, PSK_MIN_LEN)
    /\ target_ssid = Rep(97, 7)


-----------------------------------------------------------------------------
\* the scans that fail: run_wifi_scan returns an error dict, or the executor raises
FailedScans == {out \in ScanOutcomes : out.raised \/ out.dict.isError}

\* the JSON text that reports the failure
FailureText(out) ==
    json_dumps(ScanDict(TRUE, <<>>, IF out.raised THEN T_failed_to_process \o out.dict.error
                                    ELSE out.dict.error))

\* the peripheral is running and its application is registered with BlueZ
StillServing == pc = "running" /\ bus.registered

-----------------------------------------------------------------------------
-----------------------------------------------------------------------------
InProgressStatuses == {B_Scanning, B_Connecting}

\* C35: under any interleaving of SCAN, CONNECT and unknown commands, whenever
\* no scan or connect completion is pending the status is neither
\* "Scanning..." nor "Connecting...": once the pending completions have fired,
\* an in-progress status has been replaced by a completion or error status.
C35_NoStaleInProgressStatus ==
    timers = <<>> =>
        /\ value[py_STATUS_CHAR_PATH] \notin InProgressStatuses
        /\ current_status \notin InProgressStatuses

\* a SCAN and a CONNECT have both been in progress and both completions have fired
C35_Witness ==
    /\ timers = <<>>
    /\ InList(B_Scanning, session.status)
    /\ InList(B_Connecting, session.status)
    /\ lastOp.op \in {"update_scan_result", "update_connection_result"}
    /\ value[py_STATUS_CHAR_PATH] \in {B_ScanComplete, B_Connected}


-----------------------------------------------------------------------------
\* C36: a value notification is sent in a step deferred from the value change:
\* the deferred send emits nothing if the characteristic is not notifying when
\* it runs, and otherwise emits one notification that carries the value the
\* characteristic holds when it runs (so two changes before their sends give
\* two notifications that both carry the latest value).
C36_DeferredNotification ==
    lastOp.op = "send_notification" =>
        IF lastOp.pre
        THEN lastOp.emitted = <<Signal(lastOp.obj, "Value", FALSE, value[lastOp.obj])>>
        ELSE lastOp.emitted = <<>>


-----------------------------------------------------------------------------
\* C37: when two ReadValue requests on the scan characteristic overlap, each
\* returns the JSON encoding of the result of the scan it started itself (from
\* the offset it asked for), whatever the other request has stored or returned.
C37_OverlappingScanReads ==
    [][\A i \in 1..Len(scanReads), out \in ScanOutcomes :
          ScanReadFinish(i, out) =>
              /\ lastOp'.res = OK
              /\ lastOp'.ret =
                    SliceFrom(IF out.raised
                              THEN json_dumps(ScanDict(TRUE, <<>>,
                                                       T_failed_to_process \o out.dict.error))
                              ELSE json_dumps(out.dict),
                              scanReads[i].offset)]_vars

\* a request has returned the networks its scan found while another request is
\* still awaiting its scan, after a failed scan was stored in the characteristic
C37_Witness ==
    /\ lastOp.op = "ReadValue"
    /\ Cls(lastOp.obj) \in ScanClasses
    /\ scanReads # <<>>
    /\ scanReads[1].obj = lastOp.obj
    /\ lastOp.ret = json_dumps(ScanDict(FALSE, <<T_NetA, T_NetB>>, <<>>))


-----------------------------------------------------------------------------
GattOperations == {"ReadValue", "WriteValue", "StartNotify", "StopNotify"}

\* the operation was refused with an error
RejectedOp(op) == op.op \in GattOperations /\ op.res \notin {OK, PENDING}

\* C38: a GATT operation that is rejected (read or write not permitted, notify
\* not supported, invalid SSID or PSK) leaves the value and the notifying state
\* of its target (and of every other object) and the service's stored
\* credentials exactly as they were before the call.
C38_RejectedLeavesState ==
    [][RejectedOp(lastOp') => UNCHANGED <<value, notifying, target_ssid, target_psk>>]_vars

\* a PSK of a wrong length has been rejected with both credentials set
C38_Witness ==
    /\ RejectedOp(lastOp)
    /\ lastOp.op = "WriteValue"
    /\ lastOp.obj = svc_CHAR_PSK_PATH
    /\ Utf8Decode(lastOp.arg).ok
    /\ target_psk = Rep(112, PSK_MIN_LEN)
    /\ target_ssid = Rep(97, 7)


-----------------------------------------------------------------------------
\* C39: whenever the application was successfully registered with BlueZ,
\* shutdown calls UnregisterApplication for it, also when the registration of
\* the advertisement failed afterwards: the cleanup step that is to unregister
\* the application makes the call if the application is registered.
C39_ShutdownUnregisters ==
    [][(UnregisterApplication /\ bus.registered) => lastOp'.bool /\ ~bus'.registered]_vars


-----------------------------------------------------------------------------
\* C40: with the bus connected, shutdown always runs to completion: a failure
\* while unregistering the advertisement or the application or while unexporting
\* an object does not skip the remaining steps; once the cleanup has begun,
\* every exported path gets its unexport attempt and the bus is disconnected.
C40_ShutdownCompletes ==
    (pc = "cleanup") ~> (pc = "done" /\ bus.exported = <<>> /\ lastOp.op = "disconnect")

\* the teardown has ended with the disconnection although two unexports have
\* raised on the way
C40_Witness ==
    /\ pc = "done"
    /\ lastOp.op = "disconnect"
    /\ bus.exported = <<>>
    /\ Len(bus.leftover) >= 2
    /\ variant # BLE_SERVICE

====
